---- MODULE Spec2Model ----
(***************************************************************************)
(* Verification model of the BoxInvest enrichment and edge-scoring core:   *)
(*   backend/app/enrichment/dvf_enricher.py     DVF baseline refresher     *)
(*   backend/app/enrichment/market_enricher.py  market baseline store      *)
(*   backend/app/enrichment/geo_enricher.py     geo demand fetcher         *)
(*   backend/app/scoring/metrics.py             financial metrics          *)
(*   backend/app/scoring/edge_score.py          edge score composer        *)
(*   backend/app/enrichment/pipeline.py         pipeline orchestrator      *)
(*                                                                         *)
(* Numbers.  Money held in the DVF cache is in euro cents (the code rounds *)
(* to 2 decimals).  A per-unit price is the exact fraction <<n, d>> of     *)
(* cents.  Scores and ratios are in thousandths ("milli"): the code rounds *)
(* scores to 2 and ratios to 3 decimals, so every value it returns is a    *)
(* whole number of thousandths.  Rounding is round-half-even on the exact  *)
(* quotient, as Python's round() is on the value it is given.              *)
(***************************************************************************)
EXTENDS Integers, Sequences, FiniteSets, TLC

VARIABLES
    config,     \* CITY_DVF_CONFIG: tracked city -> number of commune files
    cache,      \* _cache: city -> price per m2 in cents, or None when absent
    callpc,     \* refresh_all_cities call -> "idle" | "gathering" | "done"
    task,       \* call -> city -> state of the _guarded(city) task
    dl,         \* call -> city -> commune -> state of the _fetch_commune task
    finished,   \* history: the calls that ran their cache-write loop, in order
    overlapped, \* history: a call started while another was in progress
    settings,   \* config.settings: the five edge-score weights, in hundredths
    ppc,        \* run_enrichment_pipeline: "idle" | "transit" | "commercial"
                \*   (the POI query awaited) | "done" | "raised"
    pargs,      \* the arguments of the call
    run,        \* 0 before any call; 1 a call; 2 the same call made again
    tries,      \* query -> attempt number of its retry state
    qres,       \* query -> "pending" | "ok" | "exhausted" in this call
    counts,     \* enrich_geo locals station_count and poi_count
    market,     \* pipeline local: the MarketData of the baseline lookup
    geo,        \* pipeline local: the geo signal
    geostatus,  \* how enrich_geo ended: "pending"|"skipped"|"returned"|"raised"
    record,     \* the record the call returned, None before
    record1,    \* history: the record of the first of two identical calls
    script,     \* history: the POI answers the first call received, in order
    pos,        \* history: the number of POI answers this call has received
    same,       \* history: the second call has received the first call's answers
    fin,        \* arguments of a pure function under check
    fout,       \* its result, None before it is applied
    listings,   \* enrich_pending_listings: the listings its query selected
    job,        \* enrich_pending_listings: position, outcomes, session, table
    listing_rows, \* the listings table: the rows flushed or committed so far
    sess        \* database session -> the scrape or ingest job running on it

refreshVars == <<config, cache, callpc, task, dl, finished, overlapped>>

pipeVars == <<settings, ppc, pargs, run, tries, qres, counts, market, geo,
              geostatus, record, record1, script, pos, same>>

pureVars == <<fin, fout>>

ingestVars == <<listing_rows, sess>>

jobVars == <<listings, job, ingestVars>>

vars == <<refreshVars, pipeVars, pureVars, jobVars>>

\* An optional value: None is the empty tuple, a present value v is <<v>>.
None == <<>>
Some(v) == <<v>>

(***************************************************************************)
(* Exact arithmetic helpers.                                               *)
(***************************************************************************)

\* Python round(): the quotient num/den (den > 0) rounded half to even.
RoundHalfEven(num, den) ==
    LET q == num \div den
        r == num % den
    IN  IF 2 * r < den THEN q
        ELSE IF 2 * r > den THEN q + 1
        ELSE IF q % 2 = 0 THEN q ELSE q + 1

\* Fractions <<n, d>> with d > 0, kept in lowest terms by Norm.
RECURSIVE GCD(_, _)
GCD(a, b) == IF b = 0 THEN a ELSE GCD(b, a % b)

Norm(f) ==
    LET g == GCD(IF f[1] < 0 THEN 0 - f[1] ELSE f[1], f[2])
    IN  <<f[1] \div g, f[2] \div g>>

FracLeq(a, b) == a[1] * b[2] <= b[1] * a[2]

RECURSIVE InsertSorted(_, _)
InsertSorted(x, s) ==
    IF s = <<>> THEN <<x>>
    ELSE IF FracLeq(x, Head(s)) THEN <<x>> \o s
    ELSE <<Head(s)>> \o InsertSorted(x, Tail(s))

RECURSIVE SortFracs(_)
SortFracs(s) ==
    IF s = <<>> THEN <<>> ELSE InsertSorted(Head(s), SortFracs(Tail(s)))

RECURSIVE Concat(_)
Concat(ss) == IF ss = <<>> THEN <<>> ELSE Head(ss) \o Concat(Tail(ss))

RECURSIVE SumOver(_, _)
SumOver(S, f) ==
    IF S = {} THEN 0
    ELSE LET x == CHOOSE y \in S : TRUE IN f[x] + SumOver(S \ {x}, f)

(***************************************************************************)
(* dvf_enricher.py: constants and the CSV parser.                          *)
(***************************************************************************)

SemaphoreLimit == 4
TYPICAL_GARAGE_SQM == 12
MIN_PER_LOT == 1500
MAX_PER_LOT == 150000
MinTransactions == 5

\* The tracked cities of the model.  Paris stands for the cities split into
\* arrondissements (one file each); the others have a single commune file.
ParisCommunes == 2

ConfigSmall == [c \in {"Paris", "Bordeaux"} |->
                    IF c = "Paris" THEN ParisCommunes ELSE 1]

ConfigFull == [c \in {"Paris", "Bordeaux", "Toulouse", "Nantes", "Lille"} |->
                    IF c = "Paris" THEN ParisCommunes ELSE 1]

Tracked == DOMAIN config

Communes(c) == 1 .. config[c]

\* One CSV row, reduced to the four required columns.  valeur_fonciere is
\* the text of the cell: a decimal number written with "," or "." as the
\* decimal separator, or text that is no number.
Row(id, nature, type, valeur) ==
    [id_mutation |-> id, nature_mutation |-> nature, type_local |-> type,
     valeur_fonciere |-> valeur]

Num(euros, cents, sep) == [kind |-> "num", euros |-> euros, cents |-> cents, sep |-> sep]
Junk == [kind |-> "junk", euros |-> 0, cents |-> 0, sep |-> "."]

\* .str.replace(",", ".") then pd.to_numeric(errors="coerce"): the value in
\* cents, or NaN (nan |-> TRUE) for text that is no number.
ToNumeric(v) ==
    IF v.kind = "num" /\ v.sep \in {",", "."}
    THEN [nan |-> FALSE, cents |-> v.euros * 100 + v.cents]
    ELSE [nan |-> TRUE, cents |-> 0]

\* The elements of a finite set of integers in increasing order.
RECURSIVE Ascending(_)
Ascending(S) ==
    IF S = {} THEN <<>>
    ELSE LET m == CHOOSE x \in S : \A y \in S : x <= y
         IN  <<m>> \o Ascending(S \ {m})

\* Faulty variant: the price of the mutation is taken for every lot.
PerMutationOne_NoDivide(rows, id) ==
    LET grp == SelectSeq(rows, LAMBDA r : r.id_mutation = id)
    IN  <<ToNumeric(Head(grp).valeur_fonciere).cents, 1>>

\* groupby("id_mutation").agg(price = first, lots = count), then
\* per_lot = price / lots, as the exact fraction <<cents, lots>>.
PerMutationOne(rows, id) ==
    LET grp == SelectSeq(rows, LAMBDA r : r.id_mutation = id)
    IN  <<ToNumeric(Head(grp).valeur_fonciere).cents, Len(grp)>>

PerMutation(rows) ==
    LET ids == Ascending({rows[i].id_mutation : i \in DOMAIN rows})
    IN  [i \in DOMAIN ids |-> PerMutationOne(rows, ids[i])]

\* MIN_PER_LOT <= per_lot <= MAX_PER_LOT
ValidPerLot(p) ==
    /\ p[1] >= MIN_PER_LOT * 100 * p[2]
    /\ p[1] <= MAX_PER_LOT * 100 * p[2]

\* _parse_garage_prices on a body that pandas could read.  The result is
\* [raised, prices]: raised when the parser ends in an unexpected exception
\* (a header that normalises to duplicate column names).
parse_garage_prices(body) ==
    IF ~body.readable THEN [raised |-> FALSE, prices |-> <<>>]
    ELSE IF body.dupcols THEN [raised |-> TRUE, prices |-> <<>>]
    ELSE IF ~body.required THEN [raised |-> FALSE, prices |-> <<>>]
    ELSE
      LET garage == SelectSeq(body.rows,
                      LAMBDA r : r.nature_mutation = "Vente" /\ r.type_local = "Dependance")
          priced == SelectSeq(garage,
                      LAMBDA r : ~ToNumeric(r.valeur_fonciere).nan
                                 /\ ToNumeric(r.valeur_fonciere).cents > 0)
      IN  [raised |-> FALSE,
           prices |-> SelectSeq(PerMutation(priced), ValidPerLot)]

(***************************************************************************)
(* The CSV bodies the data source can answer with, and _fetch_commune.     *)
(***************************************************************************)

Csv(rows) == [readable |-> TRUE, dupcols |-> FALSE, required |-> TRUE, rows |-> rows]

\* Five valid per-unit prices (mutation 2 sells two garages for 48 000),
\* one flat and one exchange that do not qualify.
BodyFive == Csv(<<
    Row(1, "Vente", "Dependance", Num(12000, 0, ".")),
    Row(2, "Vente", "Dependance", Num(48000, 0, ".")),
    Row(2, "Vente", "Dependance", Num(48000, 0, ".")),
    Row(3, "Vente", "Dependance", Num(18000, 50, ",")),
    Row(4, "Vente", "Dependance", Num(30000, 0, ".")),
    Row(5, "Vente", "Dependance", Num(36000, 0, ".")),
    Row(6, "Vente", "Appartement", Num(250000, 0, ".")),
    Row(7, "Echange", "Dependance", Num(20000, 0, ".")) >>)

\* Three valid per-unit prices; the other rows are out of bounds, not a
\* number, or not positive.
BodyThree == Csv(<<
    Row(11, "Vente", "Dependance", Num(15000, 0, ",")),
    Row(12, "Vente", "Dependance", Num(21000, 0, ".")),
    Row(13, "Vente", "Dependance", Num(60000, 0, ".")),
    Row(14, "Vente", "Dependance", Num(1000, 0, ".")),
    Row(15, "Vente", "Dependance", Num(400000, 0, ".")),
    Row(16, "Vente", "Dependance", Junk),
    Row(17, "Vente", "Dependance", Num(0, 0, ".")) >>)

\* A header that normalises to duplicate column names: the parser raises.
BodyDupCols == [readable |-> TRUE, dupcols |-> TRUE, required |-> TRUE, rows |-> <<>>]

Bodies == {BodyFive, BodyThree, BodyDupCols}

\* What the GET of one commune file can end in.
Responses ==
    {[kind |-> k, body |-> Csv(<<>>)] : k \in {"notfound", "failed"}}
    \cup {[kind |-> "ok", body |-> b] : b \in Bodies}

\* _fetch_commune: 404 is an empty list, any other download failure is
\* logged and is an empty list, a downloaded body is parsed.
fetch_commune(resp) ==
    IF resp.kind = "notfound" THEN [err |-> FALSE, raised |-> FALSE, prices |-> <<>>]
    ELSE IF resp.kind # "ok" THEN [err |-> TRUE, raised |-> FALSE, prices |-> <<>>]
    ELSE LET r == parse_garage_prices(resp.body)
         IN  [err |-> FALSE, raised |-> r.raised, prices |-> r.prices]

\* pd.Series(all_prices).median(), as an exact fraction of cents.
Median(prices) ==
    LET s == SortFracs(prices)
        n == Len(s)
    IN  IF n % 2 = 1 THEN s[(n + 1) \div 2]
        ELSE LET a == s[n \div 2]
                 b == s[n \div 2 + 1]
             IN  <<a[1] * b[2] + b[1] * a[2], 2 * a[2] * b[2]>>

\* Faulty variant: the minimum number of transactions is 3.
fetch_city_Min3(results) ==
    LET all_prices == Concat(results)
    IN  IF Len(all_prices) < 3 THEN None
        ELSE LET m == Median(all_prices)
             IN  Some(RoundHalfEven(m[1], m[2] * TYPICAL_GARAGE_SQM))

\* Faulty variant: the median is stored as it is, not per m2.
fetch_city_NoDivide(results) ==
    LET all_prices == Concat(results)
    IN  IF Len(all_prices) < MinTransactions THEN None
        ELSE LET m == Median(all_prices)
             IN  Some(RoundHalfEven(m[1], m[2]))

\* _fetch_city after the gather: results is the tuple of the communes'
\* price lists.  None below the minimum, else the price per m2 in cents.
fetch_city(results) ==
    LET all_prices == Concat(results)
    IN  IF Len(all_prices) < MinTransactions THEN None
        ELSE LET m == Median(all_prices)
             IN  Some(RoundHalfEven(m[1], m[2] * TYPICAL_GARAGE_SQM))

(***************************************************************************)
(* market_enricher.py.  Rents are in tenths of a euro per m2, sale prices  *)
(* per m2 in cents, the other fields in their own unit.                    *)
(***************************************************************************)

Market(rent, density, sell, transport, commercial) ==
    [avg_rent_per_sqm |-> rent, population_density |-> density,
     avg_sell_per_sqm |-> sell * 100, transport_score |-> transport,
     commercial_density |-> commercial]

CITY_MARKET_DATA ==
    [c \in {"Paris", "Lyon", "Bordeaux", "default"} |->
        CASE c = "Paris"    -> Market(250, 21000, 2800, 95, 28)
          [] c = "Lyon"     -> Market(130, 10500, 1400, 78, 18)
          [] c = "Bordeaux" -> Market(120, 5000, 1300, 70, 16)
          [] OTHER          -> Market(90, 2000, 800, 40, 8)]

\* get_cached_price: _cache.get(city).
get_cached_price(city) ==
    IF city # None /\ city[1] \in DOMAIN cache THEN cache[city[1]] ELSE None

\* get_market_data: CITY_MARKET_DATA.get(city or "", default), field by
\* field.  The DVF cache is not read.
get_market_data(city) ==
    LET key == IF city = None THEN "" ELSE city[1]
        data == IF key \in DOMAIN CITY_MARKET_DATA
                THEN CITY_MARKET_DATA[key] ELSE CITY_MARKET_DATA["default"]
    IN  [avg_rent_area |-> data.avg_rent_per_sqm,
         population_density |-> data.population_density,
         city_avg_sell_per_sqm |-> data.avg_sell_per_sqm,
         transport_score |-> data.transport_score,
         commercial_density |-> data.commercial_density]

(***************************************************************************)
(* scoring/metrics.py.  Scores and yields are in thousandths, money in     *)
(* cents; price is in euros and surface in m2, both whole numbers.         *)
(***************************************************************************)

HIGH_ACCESSIBILITY_TAGS ==
    {"digicode", "telecommande", "electricite", "eau", "videosurveillance", "24h/24"}
HEIGHT_TAGS == {"hauteur 2m", "hauteur 2.5m"}
\* Faulty variant: the digicode is no security tag.
SECURITY_TAGS_NoDigicode == {"gardiennage", "videosurveillance", "interphone"}

SECURITY_TAGS == {"gardiennage", "videosurveillance", "interphone", "digicode"}

\* str.lower() on the tags the model uses.
Lower(t) ==
    CASE t = "Digicode" -> "digicode"
      [] t = "Hauteur 2.5m" -> "hauteur 2.5m"
      [] OTHER -> t

TagsSet(accessibility_tags) == {Lower(t) : t \in accessibility_tags}

\* Faulty variant: no cap.
Min_NoCap(a, b) == b

Min(a, b) == IF a <= b THEN a ELSE b

\* "surface and surface > 0"
SurfacePositive(surface) == surface # None /\ surface[1] # 0 /\ surface[1] > 0

compute_metrics(price, surface, avg_rent_per_sqm, city_avg_sell_per_sqm, accessibility_tags, photos_count) ==
    LET tags_set == TagsSet(accessibility_tags)
        has_surface == SurfacePositive(surface)
        base_rent == avg_rent_per_sqm * surface[1]
        gross_yield == RoundHalfEven(base_rent * 120000, price)
        high_acc == Cardinality(tags_set \cap HIGH_ACCESSIBILITY_TAGS)
        has_height == (tags_set \cap HEIGHT_TAGS) # {}
        big_enough == surface # None /\ surface[1] # 0 /\ surface[1] >= 12
    IN  [price_per_sqm |->
            IF has_surface THEN Some(RoundHalfEven(price * 100, surface[1])) ELSE None,
         estimated_rent_low |->
            IF has_surface THEN Some(RoundHalfEven(base_rent * 85, 10)) ELSE None,
         estimated_rent_high |->
            IF has_surface THEN Some(RoundHalfEven(base_rent * 115, 10)) ELSE None,
         gross_yield |->
            IF has_surface /\ price > 0 THEN Some(gross_yield) ELSE None,
         storage_yield_estimate |->
            IF has_surface /\ price > 0
            THEN Some(RoundHalfEven(gross_yield * 130, 100)) ELSE None,
         accessibility_score |->
            Min(100000, high_acc * 20000 + (IF photos_count >= 3 THEN 10000 ELSE 0)),
         vertical_storage_potential |->
            IF has_height /\ big_enough THEN 80000
            ELSE IF has_height \/ big_enough THEN 45000
            ELSE 20000,
         liquidity_score |->
            Min(100000,
                photos_count * 5000
                + Cardinality(tags_set \cap SECURITY_TAGS) * 8000
                + (IF surface # None /\ surface[1] # 0 /\ surface[1] >= 15
                   THEN 20000 ELSE 0))]

(***************************************************************************)
(* scoring/edge_score.py.  A sub-score is the exact fraction <<n, d>> of   *)
(* thousandths; weights are in hundredths.                                 *)
(***************************************************************************)

DefaultWeights ==
    [weight_price_deviation |-> 30, weight_yield |-> 25,
     weight_storage_potential |-> 20, weight_demand |-> 15, weight_liquidity |-> 10]

FracAdd(a, b) == Norm(<<a[1] * b[2] + b[1] * a[2], a[2] * b[2]>>)
FracMul(a, num, den) == Norm(<<a[1] * num, a[2] * den>>)

\* Faulty variant: nothing is clamped.
clamp_Identity(value) == value

\* _clamp(value, 0, 100) = max(0, min(100, value))
clamp(value) ==
    IF value[1] > 100000 * value[2] THEN <<100000, 1>>
    ELSE IF value[1] < 0 THEN <<0, 1>>
    ELSE value

\* Faulty variant: the city baseline is preferred to the ML deviation when
\* the surface and the baseline are usable.
price_deviation_score_CityFirst(price, surface, city_avg_sell_per_sqm, ml_price_deviation) ==
    IF ~SurfacePositive(surface) \/ city_avg_sell_per_sqm <= 0
    THEN IF ml_price_deviation # None
         THEN clamp(<<(ml_price_deviation[1] + 10000) * 3, 1>>)
         ELSE <<50000, 1>>
    ELSE LET fair_price == surface[1] * city_avg_sell_per_sqm
             deviation == Norm(<<fair_price - price * 100, fair_price>>)
         IN  clamp(<<50000 * deviation[2] + 167000 * deviation[1], deviation[2]>>)

\* _price_deviation_score
price_deviation_score(price, surface, city_avg_sell_per_sqm, ml_price_deviation) ==
    IF ml_price_deviation # None
    THEN clamp(<<(ml_price_deviation[1] + 10000) * 3, 1>>)
    ELSE IF ~SurfacePositive(surface) \/ city_avg_sell_per_sqm <= 0
    THEN <<50000, 1>>
    ELSE LET fair_price == surface[1] * city_avg_sell_per_sqm
             deviation == Norm(<<fair_price - price * 100, fair_price>>)
         IN  clamp(<<50000 * deviation[2] + 167000 * deviation[1], deviation[2]>>)
\* Faulty variant: an absent yield scores 0.
yield_score_ZeroWhenAbsent(gross_yield) ==
    IF gross_yield = None THEN <<0, 1>>
    ELSE clamp(<<(gross_yield[1] - 2000) * 100, 12 - 2>>)

\* (gross_yield - YIELD_POOR) / (YIELD_EXCELLENT - YIELD_POOR) * 100
yield_score(gross_yield) ==
    IF gross_yield = None THEN <<40000, 1>>
    ELSE clamp(<<(gross_yield[1] - 2000) * 100, 12 - 2>>)

storage_score(vertical_storage_potential, accessibility_tags) ==
    LET tags_set == TagsSet(accessibility_tags)
    IN  clamp(<<vertical_storage_potential
                + (IF "electricite" \in tags_set THEN 10000 ELSE 0)
                + (IF "hauteur 2.5m" \in tags_set THEN 10000 ELSE 0), 1>>)

\* transport_norm * 0.6 + commercial_norm * 0.4, COMMERCIAL_MAX = 30
demand_score(transport_score, commercial_density) ==
    LET transport_norm == clamp(<<transport_score, 1>>)
        commercial_norm == clamp(<<commercial_density * 100, 30>>)
    IN  FracAdd(FracMul(transport_norm, 6, 10), FracMul(commercial_norm, 4, 10))

\* The five sub-scores compute_edge_score combines.
sub_scores(price, surface, city_avg_sell_per_sqm, gross_yield, transport_score, commercial_density, accessibility_tags, liquidity_score, ml_price_deviation, vertical_storage_potential) ==
    [price_dev |-> price_deviation_score(price, surface, city_avg_sell_per_sqm,
                                         ml_price_deviation),
     yld |-> yield_score(gross_yield),
     storage |-> storage_score(vertical_storage_potential, accessibility_tags),
     demand |-> demand_score(transport_score, commercial_density),
     liquidity |-> clamp(<<liquidity_score, 1>>)]

\* round(_clamp(raw), 2) of the weighted sum, in thousandths.
compute_edge_score(w, price, surface, city_avg_sell_per_sqm, gross_yield, transport_score, commercial_density, accessibility_tags, liquidity_score, ml_price_deviation, vertical_storage_potential) ==
    LET s == sub_scores(price, surface, city_avg_sell_per_sqm, gross_yield,
                        transport_score, commercial_density, accessibility_tags,
                        liquidity_score, ml_price_deviation,
                        vertical_storage_potential)
        raw == FracAdd(FracMul(s.price_dev, w.weight_price_deviation, 100),
               FracAdd(FracMul(s.yld, w.weight_yield, 100),
               FracAdd(FracMul(s.storage, w.weight_storage_potential, 100),
               FracAdd(FracMul(s.demand, w.weight_demand, 100),
                       FracMul(s.liquidity, w.weight_liquidity, 100)))))
        c == clamp(raw)
    IN  RoundHalfEven(c[1], c[2] * 10) * 10

(***************************************************************************)
(* geo_enricher.py.  A count is the Python value of tags.total: an int     *)
(* (kind "int") or None (kind "none").                                     *)
(***************************************************************************)

MaxAttempts == 3

Queries == {"transit", "commercial"}

IntCount(n) == [kind |-> "int", n |-> n]
NoneCount == [kind |-> "none", n |-> 0]

\* What one POST to the POI service can end in: a failure inside
\* _overpass_query (timeout, HTTP error status, a body that is no JSON),
\* or a JSON payload.  Payload kinds: total is a number ("int"), a numeric
\* string ("str"), a string that is no number ("badstr"), null ("null");
\* or the element list is empty ("empty").
Fail == [ok |-> FALSE, kind |-> "fail", n |-> 0]
Payload(kind, n) == [ok |-> TRUE, kind |-> kind, n |-> n]

PoiResponses ==
    {Fail, Payload("int", 3), Payload("str", 12), Payload("badstr", 0),
     Payload("null", 0), Payload("empty", 0)}
\* Faulty variant: the retry stops after the first attempt.
should_stop_AfterOne(attempt_number) == attempt_number >= 1

\* stop_after_attempt(3)
should_stop(attempt_number) == attempt_number >= MaxAttempts

\* Faulty variant: the retry state of the previous _overpass_query call is reused.
first_attempt_Leak(previous) == IF previous = 0 THEN 1 ELSE previous

\* tenacity starts every call of _overpass_query at attempt 1.
first_attempt(previous) == 1

\* data.get("elements", [{}])[0].get("tags", {}).get("total", 0), then
\* int() of a string; any exception of the block gives 0.
extract_count(payload) ==
    CASE payload.kind = "int" -> IntCount(payload.n)
      [] payload.kind = "str" -> IntCount(payload.n)
      [] payload.kind = "null" -> NoneCount
      [] payload.kind = "badstr" -> IntCount(0)
      [] OTHER -> IntCount(0)

\* Faulty variant: 12 points per station without the cap.
transport_score_NoCap(station_count) ==
    IF station_count = 0 THEN 0
    ELSE IF station_count >= 10 THEN 100000
    ELSE station_count * 12000

\* _transport_score, in thousandths.
transport_score(station_count) ==
    IF station_count = 0 THEN 0
    ELSE IF station_count >= 10 THEN 100000
    ELSE Min(100000, station_count * 12000)

\* _commercial_density: float(poi_count), in thousandths.
commercial_density(poi_count) == poi_count * 1000

\* The return statement of enrich_geo: a None count raises TypeError
\* (None >= 10, float(None)) outside the two try blocks.
enrich_geo_return(station_count, poi_count) ==
    IF station_count.kind = "none" \/ poi_count.kind = "none"
    THEN [raised |-> TRUE, transport_score |-> 0, commercial_density |-> 0]
    ELSE [raised |-> FALSE,
          transport_score |-> transport_score(station_count.n),
          commercial_density |-> commercial_density(poi_count.n)]

(***************************************************************************)
(* pipeline.py                                                             *)
(***************************************************************************)

GeoDefault == [transport_score |-> 30000, commercial_density |-> 5000]

\* "if lat and lon": both present and neither 0.0.
lat_and_lon(args) ==
    /\ args.lat # None /\ args.lat[1] # 0
    /\ args.lon # None /\ args.lon[1] # 0

\* Faulty variant: the call of enrich_geo is not inside try/except.
geo_guard_NoTry(result) ==
    [raised |-> result.raised,
     geo |-> [transport_score |-> result.transport_score,
              commercial_density |-> result.commercial_density]]

\* try: geo = await enrich_geo(lat, lon) / except Exception: log, keep the
\* default.
geo_guard(result) ==
    [raised |-> FALSE,
     geo |-> IF result.raised THEN GeoDefault
             ELSE [transport_score |-> result.transport_score,
                   commercial_density |-> result.commercial_density]]
\* Faulty variant: the deviation is taken with the opposite sign.
ml_price_deviation_Inverted(price, ml_estimated_price) ==
    IF ml_estimated_price # None /\ ml_estimated_price[1] # 0 /\ ml_estimated_price[1] > 0
    THEN Some(RoundHalfEven((price - ml_estimated_price[1]) * 10000,
                            ml_estimated_price[1]) * 10)
    ELSE None

\* round((ml_estimated_price - price) / ml_estimated_price * 100, 2), in
\* thousandths, when a positive estimate is supplied.
ml_price_deviation(price, ml_estimated_price) ==
    IF ml_estimated_price # None /\ ml_estimated_price[1] # 0 /\ ml_estimated_price[1] > 0
    THEN Some(RoundHalfEven((ml_estimated_price[1] - price) * 10000,
                            ml_estimated_price[1]) * 10)
    ELSE None
\* Faulty variant: the edge score is computed before the metrics exist (no
\* gross yield, liquidity 0).
build_record_EdgeBeforeMetrics(w, args, m, g) ==
    LET metrics == compute_metrics(args.price, args.surface, m.avg_rent_area,
                                   m.city_avg_sell_per_sqm,
                                   args.accessibility_tags, args.photos_count)
        dev == ml_price_deviation(args.price, args.ml_estimated_price)
        edge == compute_edge_score(w, args.price, args.surface,
                                   m.city_avg_sell_per_sqm, None,
                                   g.transport_score, g.commercial_density,
                                   args.accessibility_tags, 0,
                                   dev, 30000)
    IN  [avg_rent_area |-> m.avg_rent_area,
         population_density |-> m.population_density,
         commercial_density |-> g.commercial_density,
         transport_score |-> g.transport_score,
         liquidity_score |-> metrics.liquidity_score,
         accessibility_score |-> metrics.accessibility_score,
         vertical_storage_potential |-> metrics.vertical_storage_potential,
         price_per_sqm |-> metrics.price_per_sqm,
         estimated_rent_low |-> metrics.estimated_rent_low,
         estimated_rent_high |-> metrics.estimated_rent_high,
         gross_yield |-> metrics.gross_yield,
         storage_yield_estimate |-> metrics.storage_yield_estimate,
         ml_estimated_price |-> args.ml_estimated_price,
         ml_price_deviation |-> dev,
         edge_score |-> edge]

\* Steps 3 to 5 of run_enrichment_pipeline and the returned dict.
\* compute_edge_score is called without vertical_storage_potential: its
\* default 30.0 applies.
build_record(w, args, m, g) ==
    LET metrics == compute_metrics(args.price, args.surface, m.avg_rent_area,
                                   m.city_avg_sell_per_sqm,
                                   args.accessibility_tags, args.photos_count)
        dev == ml_price_deviation(args.price, args.ml_estimated_price)
        edge == compute_edge_score(w, args.price, args.surface,
                                   m.city_avg_sell_per_sqm, metrics.gross_yield,
                                   g.transport_score, g.commercial_density,
                                   args.accessibility_tags, metrics.liquidity_score,
                                   dev, 30000)
    IN  [avg_rent_area |-> m.avg_rent_area,
         population_density |-> m.population_density,
         commercial_density |-> g.commercial_density,
         transport_score |-> g.transport_score,
         liquidity_score |-> metrics.liquidity_score,
         accessibility_score |-> metrics.accessibility_score,
         vertical_storage_potential |-> metrics.vertical_storage_potential,
         price_per_sqm |-> metrics.price_per_sqm,
         estimated_rent_low |-> metrics.estimated_rent_low,
         estimated_rent_high |-> metrics.estimated_rent_high,
         gross_yield |-> metrics.gross_yield,
         storage_yield_estimate |-> metrics.storage_yield_estimate,
         ml_estimated_price |-> args.ml_estimated_price,
         ml_price_deviation |-> dev,
         edge_score |-> edge]

(***************************************************************************)
(* run_enrichment_pipeline as a state machine.  A step is what the call    *)
(* does between two awaits: the only awaits are the POSTs of the two POI   *)
(* queries and the back-off sleep before a retry.  A call made again with  *)
(* the same arguments (run = 2) receives the POI answers of the first call *)
(* in the same order for as long as it asks the same number of times.      *)
(***************************************************************************)

Args(price, surface, city, lat, lon, accessibility_tags, photos_count, ml_estimated_price) ==
    [price |-> price, surface |-> surface, city |-> city, lat |-> lat, lon |-> lon,
     accessibility_tags |-> accessibility_tags, photos_count |-> photos_count,
     ml_estimated_price |-> ml_estimated_price]

\* The listings the model enriches.
ArgsSet ==
    {Args(p, s, c, ll[1], ll[2], t, 4, ml) :
        p \in {21000, 50000},
        s \in {None, Some(15)},
        c \in {None, Some("Paris"), Some("Atlantis")},
        ll \in {<<None, None>>, <<Some(48), None>>, <<Some(0), Some(2)>>,
                <<Some(48), Some(2)>>},
        t \in {{}, {"Digicode", "gardiennage"}},
        ml \in {None, Some(42000)}}

IdleArgs == Args(0, None, None, None, None, {}, 0, None)

ZeroCounts == [q \in Queries |-> IntCount(0)]

\* The body of run_enrichment_pipeline up to its first await, or to its
\* return when no POI request is made.
Enter(args) ==
    /\ pargs' = args
    /\ market' = get_market_data(args.city)
    /\ qres' = [q \in Queries |-> "pending"]
    /\ counts' = ZeroCounts
    /\ pos' = 0
    /\ IF lat_and_lon(args)
       THEN /\ ppc' = "transit"
            /\ tries' = [tries EXCEPT !["transit"] = first_attempt(@)]
            /\ geo' = GeoDefault
            /\ geostatus' = "pending"
            /\ record' = None
       ELSE /\ ppc' = "done"
            /\ geo' = GeoDefault
            /\ geostatus' = "skipped"
            /\ record' = Some(build_record(settings, args, get_market_data(args.city),
                                           GeoDefault))
            /\ UNCHANGED tries

\* A caller invokes run_enrichment_pipeline.
run_enrichment_pipeline(args) ==
    /\ ppc = "idle"
    /\ run' = 1
    /\ record1' = None
    /\ script' = <<>>
    /\ same' = TRUE
    /\ Enter(args)
    /\ UNCHANGED <<jobVars, refreshVars, pureVars, settings>>

\* The caller invokes it again with the arguments of the call that just
\* returned.
run_enrichment_pipeline_again ==
    /\ ppc = "done"
    /\ run = 1
    /\ run' = 2
    /\ record1' = record
    /\ same' = TRUE
    /\ Enter(pargs)
    /\ UNCHANGED <<jobVars, refreshVars, pureVars, settings, script>>

\* The POST of the awaited query ends in resp.  A failed attempt below the
\* attempt limit sleeps and posts again.  Otherwise the query is settled
\* (a RetryError after the last attempt is caught and gives 0); after the
\* transit query the commercial query is posted; after the commercial query
\* enrich_geo returns or raises and the pipeline runs to its return.
overpass_response(resp) ==
    /\ ppc \in Queries
    /\ IF run = 2 /\ pos < Len(script)
       THEN resp = script[pos + 1] /\ same' = same
       ELSE same' = (same /\ run = 1)
    /\ pos' = pos + 1
    /\ script' = IF run = 1 THEN Append(script, resp) ELSE script
    /\ IF ~resp.ok /\ ~should_stop(tries[ppc])
       THEN /\ tries' = [tries EXCEPT ![ppc] = @ + 1]
            /\ UNCHANGED <<ppc, qres, counts, geo, geostatus, record>>
       ELSE LET cnt == IF resp.ok THEN extract_count(resp) ELSE IntCount(0)
                settled == IF resp.ok THEN "ok" ELSE "exhausted"
            IN  /\ qres' = [qres EXCEPT ![ppc] = settled]
                /\ counts' = [counts EXCEPT ![ppc] = cnt]
                /\ IF ppc = "transit"
                   THEN /\ ppc' = "commercial"
                        /\ tries' = [tries EXCEPT !["commercial"] = first_attempt(@)]
                        /\ UNCHANGED <<geo, geostatus, record>>
                   ELSE LET result == enrich_geo_return(counts["transit"], cnt)
                            guarded == geo_guard(result)
                        IN  /\ geostatus' = IF result.raised THEN "raised" ELSE "returned"
                            /\ ppc' = IF guarded.raised THEN "raised" ELSE "done"
                            /\ geo' = guarded.geo
                            /\ record' = IF guarded.raised THEN None
                                         ELSE Some(build_record(settings, pargs, market,
                                                                guarded.geo))
                            /\ UNCHANGED tries
    /\ UNCHANGED <<jobVars, refreshVars, pureVars, settings, pargs, run, market, record1>>

PipeIdle ==
    /\ settings = DefaultWeights
    /\ ppc = "idle"
    /\ pargs = IdleArgs
    /\ run = 0
    /\ tries = [q \in Queries |-> 0]
    /\ qres = [q \in Queries |-> "pending"]
    /\ counts = ZeroCounts
    /\ market = get_market_data(None)
    /\ geo = GeoDefault
    /\ geostatus = "pending"
    /\ record = None
    /\ record1 = None
    /\ script = <<>>
    /\ pos = 0
    /\ same = TRUE

\* The caller is done with the record: nothing of the call is left.
pipeline_released ==
    /\ ppc = "done"
    /\ ppc' = "idle"
    /\ pargs' = IdleArgs
    /\ run' = 0
    /\ tries' = [q \in Queries |-> 0]
    /\ qres' = [q \in Queries |-> "pending"]
    /\ counts' = ZeroCounts
    /\ market' = get_market_data(None)
    /\ geo' = GeoDefault
    /\ geostatus' = "pending"
    /\ record' = None
    /\ record1' = None
    /\ script' = <<>>
    /\ pos' = 0
    /\ same' = TRUE
    /\ UNCHANGED <<jobVars, refreshVars, pureVars, settings>>

PipelineNext ==
    \/ \E args \in ArgsSet : run_enrichment_pipeline(args)
    \/ run_enrichment_pipeline_again
    \/ \E resp \in PoiResponses : overpass_response(resp)
    \/ pipeline_released

PureIdle ==
    /\ fin = <<>>
    /\ fout = None

(***************************************************************************)
(* jobs.py: enrich_pending_listings.  The batch selects the listings that  *)
(* have no enrichment row (at most 200) and enriches them one after the    *)
(* other inside a try/except, then commits.  A listing is [id,             *)
(* has_location]; an enrichment row is the id of its listing.              *)
(***************************************************************************)

\* The largest batch the model selects (the query's limit is 200).
MaxListings == 3

\* The parameters of run_enrichment_pipeline and the keywords the batch
\* passes to it.
PipelineParameters ==
    {"listing_id", "price", "surface", "city", "lat", "lon", "accessibility_tags",
     "photos_count", "ml_estimated_price"}

JobKeywords ==
    {"listing_id", "price", "surface", "city", "lat", "lon", "accessibility_tags",
     "photos_count", "ml_estimated_price", "source"}

\* Python binds a call's keywords to the parameters: a keyword that is no
\* parameter raises TypeError before the body runs.
call_binds(keywords, parameters) == keywords \subseteq parameters

Batches ==
    UNION {[1 .. n -> BOOLEAN] : n \in 0 .. MaxListings}

JobIdleState ==
    [pc |-> "idle", i |-> 1, outcome |-> <<>>, added |-> {}, committed |-> {}]

\* The database sessions the model follows: one per job in progress.
Sessions == {1, 2}

SessIdle ==
    [pc |-> "idle", source |-> "", batch |-> <<>>, i |-> 1, returned |-> <<>>, runs |-> 0]

JobIdle ==
    /\ listings = <<>>
    /\ job = JobIdleState
    /\ listing_rows = {}
    /\ sess = [s \in Sessions |-> SessIdle]

\* enrich_pending_listings is called: the query selects the batch.
\* located[i] tells whether listing i has a location.
enrich_pending_listings_start(located) ==
    /\ job.pc = "idle"
    /\ listings' = [i \in DOMAIN located |-> [id |-> i, has_location |-> located[i]]]
    /\ job' = [JobIdleState EXCEPT !.pc = "loop"]
    /\ UNCHANGED <<refreshVars, pipeVars, pureVars, ingestVars>>

\* Faulty variant: the error of a listing is not caught and ends the batch.
listing_failed_NoCatch(j, error) ==
    [j EXCEPT !.pc = "raised", !.outcome = Append(@, error)]

\* except Exception: log and continue with the next listing.
listing_failed(j, error) ==
    [j EXCEPT !.i = @ + 1, !.outcome = Append(@, error)]

\* One iteration of the loop.  The coordinate query of a listing that has
\* a location may fail (coords_ok = FALSE); the call of
\* run_enrichment_pipeline raises TypeError when a keyword is no parameter;
\* otherwise the enrichment row is added to the session.
enrich_listing(coords_ok) ==
    /\ job.pc = "loop"
    /\ job.i <= Len(listings)
    /\ LET listing == listings[job.i]
       IN  job' = IF listing.has_location /\ ~coords_ok
                  THEN listing_failed(job, "db_error")
                  ELSE IF ~call_binds(JobKeywords, PipelineParameters)
                  THEN listing_failed(job, "type_error")
                  ELSE [job EXCEPT !.i = @ + 1,
                                   !.outcome = Append(@, "added"),
                                   !.added = @ \cup {listing.id}]
    /\ UNCHANGED <<refreshVars, pipeVars, pureVars, listings, ingestVars>>

\* After the loop: await db.commit().
enrich_pending_listings_commit ==
    /\ job.pc = "loop"
    /\ job.i > Len(listings)
    /\ job' = [job EXCEPT !.pc = "done", !.committed = @ \cup job.added]
    /\ UNCHANGED <<refreshVars, pipeVars, pureVars, listings, ingestVars>>

JobNext ==
    \/ \E located \in Batches : enrich_pending_listings_start(located)
    \/ \E coords_ok \in BOOLEAN : enrich_listing(coords_ok)
    \/ enrich_pending_listings_commit

(***************************************************************************)
(* jobs.py: _upsert_listing and the jobs that call it.  ingest_mock_data   *)
(* (source "mock") and scrape_leboncoin (source "leboncoin") each open a   *)
(* session, upsert the listings of one scrape one after the other and      *)
(* commit.  The scheduler and the /jobs/ingest-mock endpoint start jobs    *)
(* independently, so two can be in progress at once.  A row of the         *)
(* listings table is [id, source, external_id, owner, committed]: a        *)
(* session sees the committed rows and its own flushed rows.  The table    *)
(* has a primary key on id and no other unique constraint.                 *)
(***************************************************************************)

\* The longest scrape result and the number of jobs a session runs.
MaxBatch == 2
MaxJobs == 2

\* ingest_mock_data seeds only a table of fewer than 10 listings.
MockSeedLimit == 10

Sources == {"mock", "leboncoin"}

\* The external ids a scrape returns; "" stands for None or the empty
\* string (falsy in "if raw.external_id").
ExternalIds == {"", "a"}

RawBatches == UNION {[1 .. n -> ExternalIds] : n \in 1 .. MaxBatch}

Visible(s) == {r \in listing_rows : r.committed \/ r.owner = s}

\* select(Listing.id).where(source == raw.source, external_id == raw.external_id)
Matching(s, source, external_id) ==
    {r \in Visible(s) : r.source = source /\ r.external_id = external_id}

\* Listing(id=uuid.uuid4(), ...): an id no other row has.
NewListing(s) ==
    [id |-> <<s, sess[s].runs, sess[s].i>>, source |-> sess[s].source,
     external_id |-> sess[s].batch[sess[s].i], owner |-> s, committed |-> FALSE]

\* db.add(listing); await db.flush(); return listing.id
flush_listing(s) ==
    /\ listing_rows' = listing_rows \cup {NewListing(s)}
    /\ sess' = [sess EXCEPT ![s].pc = "upsert", ![s].i = @ + 1,
                            ![s].returned = Append(@, NewListing(s).id)]

\* A job starts on session s: ingest_mock_data counts the listings first
\* and returns when there are 10 or more; the scrape returns batch.
job_start(s, source, batch) ==
    /\ sess[s].pc \in {"idle", "done", "failed"}
    /\ sess[s].runs < MaxJobs
    /\ sess' = [sess EXCEPT ![s] =
                  [pc |-> IF source = "mock" /\ Cardinality(Visible(s)) >= MockSeedLimit
                          THEN "done" ELSE "upsert",
                   source |-> source, batch |-> batch, i |-> 1, returned |-> <<>>,
                   runs |-> sess[s].runs + 1]]
    /\ UNCHANGED <<refreshVars, pipeVars, pureVars, listings, job, listing_rows>>

\* _upsert_listing up to its next await.  With an external id the SELECT
\* runs: one row found returns its id, several raise MultipleResultsFound
\* (scalar_one_or_none), which ends the job and rolls its session back,
\* none leads to the INSERT.  Without an external id the row is inserted
\* at once.
upsert_listing(s) ==
    /\ sess[s].pc = "upsert"
    /\ sess[s].i <= Len(sess[s].batch)
    /\ LET external_id == sess[s].batch[sess[s].i]
           found == Matching(s, sess[s].source, external_id)
       IN  IF external_id = ""
           THEN flush_listing(s)
           ELSE IF Cardinality(found) > 1
           THEN /\ sess' = [sess EXCEPT ![s].pc = "failed"]
                /\ listing_rows' = {r \in listing_rows : r.committed \/ r.owner # s}
           ELSE IF Cardinality(found) = 1
           THEN /\ sess' = [sess EXCEPT ![s].i = @ + 1,
                                        ![s].returned =
                                            Append(@, (CHOOSE r \in found : TRUE).id)]
                /\ UNCHANGED listing_rows
           ELSE /\ sess' = [sess EXCEPT ![s].pc = "insert"]
                /\ UNCHANGED listing_rows
    /\ UNCHANGED <<refreshVars, pipeVars, pureVars, listings, job>>

\* The INSERT of _upsert_listing, after the SELECT found nothing.
upsert_insert(s) ==
    /\ sess[s].pc = "insert"
    /\ flush_listing(s)
    /\ UNCHANGED <<refreshVars, pipeVars, pureVars, listings, job>>

\* await db.commit() after the loop.
job_commit(s) ==
    /\ sess[s].pc = "upsert"
    /\ sess[s].i > Len(sess[s].batch)
    /\ listing_rows' = {IF r.owner = s THEN [r EXCEPT !.committed = TRUE] ELSE r : r \in listing_rows}
    /\ sess' = [sess EXCEPT ![s].pc = "done"]
    /\ UNCHANGED <<refreshVars, pipeVars, pureVars, listings, job>>

IngestNext ==
    \/ \E s \in Sessions, source \in Sources, batch \in RawBatches :
          job_start(s, source, batch)
    \/ \E s \in Sessions : upsert_listing(s)
    \/ \E s \in Sessions : upsert_insert(s)
    \/ \E s \in Sessions : job_commit(s)

(***************************************************************************)
(* refresh_all_cities as a state machine.  The event loop runs one task at *)
(* a time; a step of the model is what one task does between two awaits.   *)
(* Invocations (the scheduler's and the /jobs/refresh-dvf endpoint's) can  *)
(* be in progress at once; each has its own semaphore.  callpc has one     *)
(* entry per invocation the model follows.                                 *)
(***************************************************************************)

Calls == DOMAIN callpc

TaskIdle == [st |-> "idle", price |-> None, nvalid |-> 0, err |-> FALSE]
DlIdle == [st |-> "idle", err |-> FALSE, raised |-> FALSE, prices |-> <<>>]
\* Faulty variant: a city that raised keeps its place in the semaphore.
Holding_KeptOnRaise(k) == {c \in Tracked : task[k][c].st \in {"fetching", "raised"}}

Holding(k) == {c \in Tracked : task[k][c].st = "fetching"}

InFlight == {x \in Calls \X Tracked \X (1 .. ParisCommunes) :
                /\ x[3] \in Communes(x[2])
                /\ dl[x[1]][x[2]][x[3]].st = "inflight"}

\* refresh_all_cities is called: the semaphore is created and gather()
\* schedules one _guarded task per tracked city.
refresh_all_cities_start(k) ==
    /\ callpc[k] \in {"idle", "done"}
    /\ \A c \in Tracked : \A f \in Communes(c) : dl[k][c][f].st # "inflight"
    /\ callpc' = [callpc EXCEPT ![k] = "gathering"]
    /\ task' = [task EXCEPT ![k] = [c \in Tracked |-> [TaskIdle EXCEPT !.st = "waiting"]]]
    /\ finished' = SelectSeq(finished, LAMBDA j : j # k)
    /\ overlapped' = (overlapped \/ \E j \in Calls : callpc[j] = "gathering")
    /\ UNCHANGED <<jobVars, pipeVars, pureVars, config, cache, dl>>
\* Faulty variant: "async with sem" is missing, a city starts at once.
guarded_acquire_NoLimit(k, c) ==
    /\ callpc[k] = "gathering"
    /\ task[k][c].st = "waiting"
    /\ task' = [task EXCEPT ![k][c].st = "fetching"]
    /\ dl' = [dl EXCEPT ![k][c] = [f \in Communes(c) |-> [DlIdle EXCEPT !.st = "inflight"]]]
    /\ UNCHANGED <<jobVars, pipeVars, pureVars, config, cache, callpc, finished, overlapped>>

\* _guarded: "async with sem" is entered, _fetch_city builds one
\* _fetch_commune task per commune and awaits their gather.
guarded_acquire(k, c) ==
    /\ callpc[k] = "gathering"
    /\ task[k][c].st = "waiting"
    /\ Cardinality(Holding(k)) < SemaphoreLimit
    /\ task' = [task EXCEPT ![k][c].st = "fetching"]
    /\ dl' = [dl EXCEPT ![k][c] = [f \in Communes(c) |-> [DlIdle EXCEPT !.st = "inflight"]]]
    /\ UNCHANGED <<jobVars, pipeVars, pureVars, config, cache, callpc, finished, overlapped>>

\* One _fetch_commune task ends.  When the city's _fetch_city has already
\* raised, the task is an orphan of the gather and its result is dropped.
fetch_commune_done(k, c, f, resp) ==
    /\ dl[k][c][f].st = "inflight"
    /\ dl' = [dl EXCEPT ![k][c][f] =
                IF task[k][c].st = "fetching"
                THEN [st |-> "done"] @@ fetch_commune(resp)
                ELSE DlIdle]
    /\ UNCHANGED <<jobVars, pipeVars, pureVars, config, cache, callpc, task, finished, overlapped>>

\* The gather of _fetch_city is complete: the prices are pooled, the
\* median taken, and _guarded leaves the semaphore with (city, result).
fetch_city_return(k, c) ==
    /\ task[k][c].st = "fetching"
    /\ \A f \in Communes(c) : dl[k][c][f].st = "done" /\ ~dl[k][c][f].raised
    /\ LET results == [f \in Communes(c) |-> dl[k][c][f].prices]
       IN  task' = [task EXCEPT ![k][c] =
                [st |-> "returned",
                 price |-> fetch_city(results),
                 nvalid |-> Len(Concat(results)),
                 err |-> \E f \in Communes(c) : dl[k][c][f].err]]
    /\ dl' = [dl EXCEPT ![k][c] = [f \in Communes(c) |-> DlIdle]]
    /\ UNCHANGED <<jobVars, pipeVars, pureVars, config, cache, callpc, finished, overlapped>>

\* A _fetch_commune task raised: the gather of _fetch_city re-raises at
\* once, _guarded leaves the semaphore by the exception, and the communes
\* still being downloaded go on as orphans.
fetch_city_raise(k, c) ==
    /\ task[k][c].st = "fetching"
    /\ \E f \in Communes(c) : dl[k][c][f].st = "done" /\ dl[k][c][f].raised
    /\ task' = [task EXCEPT ![k][c] = [TaskIdle EXCEPT !.st = "raised"]]
    /\ dl' = [dl EXCEPT ![k][c] = [f \in Communes(c) |->
                IF dl[k][c][f].st = "inflight" THEN dl[k][c][f] ELSE DlIdle]]
    /\ UNCHANGED <<jobVars, pipeVars, pureVars, config, cache, callpc, finished, overlapped>>

\* Faulty variant: the loop stores every returned result, a None included.
WriteResults_StoreNone(k) ==
    [c \in DOMAIN cache |->
        IF c \in Tracked /\ task[k][c].st = "returned"
        THEN task[k][c].price
        ELSE cache[c]]

\* Faulty variant: a raised task ends the loop before anything is stored.
WriteResults_AbortOnRaise(k) ==
    [c \in DOMAIN cache |->
        IF /\ c \in Tracked /\ task[k][c].st = "returned" /\ task[k][c].price # None
           /\ \A d \in Tracked : task[k][d].st # "raised"
        THEN task[k][c].price
        ELSE cache[c]]

\* The cache after the loop over the gathered results.
WriteResults(k) ==
    [c \in DOMAIN cache |->
        IF c \in Tracked /\ task[k][c].st = "returned" /\ task[k][c].price # None
        THEN task[k][c].price
        ELSE cache[c]]
\* Faulty variant: the results are written as soon as one city has
\* returned, while other cities are still being fetched.
refresh_all_cities_finish_Early(k) ==
    /\ callpc[k] = "gathering"
    /\ \E c \in Tracked : task[k][c].st = "returned"
    /\ cache' = WriteResults(k)
    /\ callpc' = [callpc EXCEPT ![k] = "done"]
    /\ finished' = Append(finished, k)
    /\ UNCHANGED <<jobVars, pipeVars, pureVars, config, task, dl, overlapped>>

\* gather(return_exceptions=True) is complete: the loop over the results
\* writes the cache.  The loop has no await: it is one step.
refresh_all_cities_finish(k) ==
    /\ callpc[k] = "gathering"
    /\ \A c \in Tracked : task[k][c].st \in {"returned", "raised"}
    /\ cache' = WriteResults(k)
    /\ callpc' = [callpc EXCEPT ![k] = "done"]
    /\ finished' = Append(finished, k)
    /\ UNCHANGED <<jobVars, pipeVars, pureVars, config, task, dl, overlapped>>

RefreshSteps ==
    \/ \E k \in Calls : \E c \in Tracked : guarded_acquire(k, c)
    \/ \E k \in Calls : \E c \in Tracked : \E f \in Communes(c) :
            \E resp \in Responses : fetch_commune_done(k, c, f, resp)
    \/ \E k \in Calls : \E c \in Tracked : fetch_city_return(k, c)
    \/ \E k \in Calls : \E c \in Tracked : fetch_city_raise(k, c)
    \/ \E k \in Calls : refresh_all_cities_finish(k)

\* One invocation after another, each starting from the cache the last left.
RefreshNext ==
    \/ \E k \in Calls : refresh_all_cities_start(k)
    \/ RefreshSteps

\* Each followed invocation runs once; they may overlap in any way.
OverlapNext ==
    \/ \E k \in Calls : callpc[k] = "idle" /\ refresh_all_cities_start(k)
    \/ RefreshSteps

RefreshInit(cfg, calls, cache0) ==
    /\ config = cfg
    /\ cache = cache0
    /\ callpc = [k \in calls |-> "idle"]
    /\ task = [k \in calls |-> [c \in DOMAIN cfg |-> TaskIdle]]
    /\ dl = [k \in calls |-> [c \in DOMAIN cfg |-> [f \in 1 .. cfg[c] |-> DlIdle]]]
    /\ finished = <<>>
    /\ overlapped = FALSE

EmptyCache(cfg) == [c \in DOMAIN cfg |-> None]

\* A price an earlier refresh has stored: the one of a city whose single
\* file is BodyThree twice over (six valid prices).
PriorPrice == fetch_city(<<parse_garage_prices(BodyThree).prices,
                           parse_garage_prices(BodyThree).prices>>)

\* Process start: the cache is empty.
InitRefresh ==
    RefreshInit(ConfigSmall, {1}, EmptyCache(ConfigSmall)) /\ PipeIdle /\ JobIdle /\ PureIdle

InitFull ==
    RefreshInit(ConfigFull, {1}, EmptyCache(ConfigFull)) /\ PipeIdle /\ JobIdle /\ PureIdle

\* Two invocations about to start, on the cache an earlier refresh left:
\* a price for Paris, nothing for Bordeaux.
InitOverlap ==
    /\ RefreshInit(ConfigSmall, {1, 2},
                   [c \in DOMAIN ConfigSmall |-> IF c = "Paris" THEN PriorPrice ELSE None])
    /\ PipeIdle /\ JobIdle /\ PureIdle

SpecRefresh == InitRefresh /\ [][RefreshNext]_vars

SpecFull == InitFull /\ [][OverlapNext]_vars

SpecOverlap == InitOverlap /\ [][OverlapNext]_vars

\* The pipeline on the cache an earlier refresh left (a price for Paris,
\* nothing for Bordeaux); no refresh runs meanwhile.
InitPipeline ==
    /\ RefreshInit(ConfigSmall, {1},
                   [c \in DOMAIN ConfigSmall |-> IF c = "Paris" THEN PriorPrice ELSE None])
    /\ PipeIdle /\ JobIdle /\ PureIdle

SpecPipeline == InitPipeline /\ [][PipelineNext]_vars

(***************************************************************************)
(* Claims about refresh_all_cities.                                        *)
(***************************************************************************)

\* The step in which call k runs its cache-write loop.
Finishing(k) == callpc[k] = "gathering" /\ callpc'[k] = "done"

Produced(k, c) == task[k][c].st = "returned" /\ task[k][c].price # None

\* C1: during refresh_all_cities the number of source-file downloads in
\* flight at the same time, over all tracked cities and their sub-area
\* files, is at most 4.
C1_AtMostFourDownloadsInFlight == Cardinality(InFlight) <= 4

\* C3: a city whose refresh pooled fewer than 5 valid per-unit prices keeps
\* its cache entry as it was: an entry changes only in the write loop of a
\* call in which that city pooled at least 5 valid prices.
C3_InsufficientDataKeepsEntry ==
    [][\A c \in Tracked :
          cache'[c] # cache[c] =>
              \E k \in Calls : /\ Finishing(k)
                               /\ task[k][c].st = "returned"
                               /\ task[k][c].nvalid >= 5]_vars

C3_Witness ==
    /\ callpc[1] = "done"
    /\ task[1]["Paris"].st = "returned"
    /\ task[1]["Paris"].nvalid \in 1 .. 4
    /\ cache["Paris"] # None
    /\ task[1]["Bordeaux"].st = "returned"
    /\ task[1]["Bordeaux"].nvalid < 5
    /\ cache["Bordeaux"] = None

\* C4 as stated: a city with a download error on any of its files, or with
\* an unexpected exception, keeps its cache entry, while every other city
\* that pooled at least 5 valid prices is updated.
CityFailed(k, c) == task[k][c].st = "raised" \/ task[k][c].err

C4_Original ==
    [][\A k \in Calls : Finishing(k) =>
          \A c \in Tracked :
              /\ CityFailed(k, c) => cache'[c] = cache[c]
              /\ (~CityFailed(k, c) /\ task[k][c].nvalid >= 5)
                    => cache'[c] = task[k][c].price]_vars

\* C4 as amended: the city keeps its entry when its refresh raised or when
\* download errors left it below 5 valid prices; every city that pooled at
\* least 5 valid prices, download errors on some of its files or not, is
\* updated; the call ends normally whatever the tasks ended in.
C4_FailureIsolated ==
    [][\A k \in Calls :
          /\ (callpc[k] = "gathering" /\ callpc'[k] # "gathering") => callpc'[k] = "done"
          /\ Finishing(k) =>
              \A c \in Tracked :
                  /\ (task[k][c].st = "raised"
                        \/ (task[k][c].err /\ task[k][c].nvalid < 5))
                        => cache'[c] = cache[c]
                  /\ (task[k][c].st = "returned" /\ task[k][c].nvalid >= 5)
                        => cache'[c] = task[k][c].price]_vars

C4_Witness ==
    /\ callpc[1] = "done"
    /\ task[1]["Bordeaux"].st = "raised"
    /\ cache["Bordeaux"] = None
    /\ task[1]["Paris"].nvalid >= 5
    /\ cache["Paris"] = task[1]["Paris"].price

\* The cache the two overlapping calls start from.
OverlapCache0 == [c \in DOMAIN ConfigSmall |-> IF c = "Paris" THEN PriorPrice ELSE None]

\* C10: after two calls that may overlap have both finished, each entry is
\* the value of the call that wrote last if that call produced one, else
\* the value of the other call if it produced one, else the value from
\* before the calls.
C10_LastWriterWins ==
    (\A k \in Calls : callpc[k] = "done") =>
        \A c \in Tracked :
            LET first == finished[1]
                last == finished[2]
            IN  cache[c] = IF Produced(last, c) THEN task[last][c].price
                           ELSE IF Produced(first, c) THEN task[first][c].price
                           ELSE OverlapCache0[c]

C10_Witness ==
    /\ overlapped
    /\ \A k \in Calls : callpc[k] = "done"
    /\ Produced(1, "Paris") /\ Produced(2, "Paris")
    /\ task[1]["Paris"].price # task[2]["Paris"].price
    /\ cache["Paris"] = task[finished[2]]["Paris"].price
    /\ ~Produced(1, "Bordeaux") /\ Produced(2, "Bordeaux")
    /\ finished[2] = 1
    /\ cache["Bordeaux"] = task[2]["Bordeaux"].price

(***************************************************************************)
(* compute_edge_score as a pure function: the arguments are drawn in the   *)
(* initial state and one step applies the function.                        *)
(***************************************************************************)

\* Weight sets that sum to 1.0 (100 hundredths), one with a negative weight.
WeightSets ==
    {DefaultWeights,
     [weight_price_deviation |-> 100, weight_yield |-> 0,
      weight_storage_potential |-> 0, weight_demand |-> 0, weight_liquidity |-> 0],
     [weight_price_deviation |-> 0, weight_yield |-> 0,
      weight_storage_potential |-> 0, weight_demand |-> 50, weight_liquidity |-> 50],
     [weight_price_deviation |-> 20, weight_yield |-> 20,
      weight_storage_potential |-> 20, weight_demand |-> 20, weight_liquidity |-> 20],
     [weight_price_deviation |-> 0, weight_yield |-> 150,
      weight_storage_potential |-> 0, weight_demand |-> 0, weight_liquidity |-> 0 - 50]}

EdgeInputs ==
    [w : WeightSets,
     price : {0 - 21000, 0, 10500, 21000, 1000000},
     surface : {None, Some(0), Some(15)},
     city_avg_sell_per_sqm : {140000},
     gross_yield : {None, Some(0 - 1000), Some(4680), Some(50000)},
     transport_score : {0 - 10000, 30000, 250000},
     commercial_density : {0, 5000, 45000},
     accessibility_tags : {{}, {"electricite", "Hauteur 2.5m"}},
     liquidity_score : {0 - 5000, 48000, 130000},
     ml_price_deviation : {None, Some(0 - 50000), Some(90000)},
     vertical_storage_potential : {20000, 95000}]

EdgeSubScores(x) ==
    sub_scores(x.price, x.surface, x.city_avg_sell_per_sqm, x.gross_yield,
               x.transport_score, x.commercial_density, x.accessibility_tags,
               x.liquidity_score, x.ml_price_deviation, x.vertical_storage_potential)

EdgeScoreOf(x) ==
    compute_edge_score(x.w, x.price, x.surface, x.city_avg_sell_per_sqm,
                       x.gross_yield, x.transport_score, x.commercial_density,
                       x.accessibility_tags, x.liquidity_score,
                       x.ml_price_deviation, x.vertical_storage_potential)

\* compute_edge_score is called on the drawn arguments.
compute_edge_score_call ==
    /\ fout = None
    /\ fout' = Some([edge_score |-> EdgeScoreOf(fin), subs |-> EdgeSubScores(fin)])
    /\ UNCHANGED <<jobVars, refreshVars, pipeVars, fin>>

InitEdge ==
    /\ RefreshInit(ConfigSmall, {1}, EmptyCache(ConfigSmall))
    /\ PipeIdle /\ JobIdle
    /\ fin \in EdgeInputs
    /\ fout = None

SpecEdge == InitEdge /\ [][compute_edge_score_call]_vars

(***************************************************************************)
(* Claims about the baseline lookup, the geo fetch and the pipeline.       *)
(***************************************************************************)

InCall == ppc \in {"transit", "commercial", "done", "raised"}

\* C2: once a DVF price v is cached for city c, a baseline lookup for c has
\* avg_sell_per_sqm = v and every other field from the static table; the
\* static price is used only when c has no cache entry.
C2_CachedPriceIsTheBaseline ==
    InCall =>
        LET cached == get_cached_price(pargs.city)
            static == get_market_data(pargs.city)
        IN  /\ market.city_avg_sell_per_sqm =
                  IF cached # None THEN cached[1] ELSE static.city_avg_sell_per_sqm
            /\ market.avg_rent_area = static.avg_rent_area
            /\ market.population_density = static.population_density

\* C5: with both coordinates present and every attempt of both POI queries
\* failing, the returned record has transport_score 30 and
\* commercial_density 5.
C5_OutageGivesDefaults ==
    (/\ ppc = "done"
     /\ pargs.lat # None /\ pargs.lon # None
     /\ \A q \in Queries : qres[q] = "exhausted")
        => /\ record # None
           /\ record[1].transport_score = 30000
           /\ record[1].commercial_density = 5000

\* C6: whatever the POI requests end in (failure, empty element list,
\* non-numeric or null count), no exception escapes the pipeline: the call
\* ends by returning a record.
C6_NoExceptionEscapes ==
    /\ ppc # "raised"
    /\ geostatus \in {"returned", "raised", "skipped"} => ppc = "done"
    /\ ppc = "done" => record # None

C6_Witness ==
    /\ ppc = "done"
    /\ geostatus = "raised"
    /\ counts["commercial"].kind = "none"
    /\ qres["transit"] = "exhausted"
    /\ record # None
    /\ record[1].transport_score = 30000

\* C7: each POI query is attempted at most 3 times; when all 3 attempts of
\* a query fail its count is 0, enrich_geo still returns normally and the
\* other query's count is the one that query returned.
C7_ExhaustedQueryGivesZeroAndReturns ==
    /\ \A q \in Queries : qres[q] # "pending" => tries[q] <= 3
    /\ \A q \in Queries : qres[q] = "exhausted" => counts[q] = IntCount(0)
    /\ (ppc \in {"done", "raised"} /\ \E q \in Queries : qres[q] = "exhausted")
          => geostatus = "returned"

\* C9: a call made again with the same arguments, on the same cache, that
\* receives the same POI answers returns the same record.
C9_SameCallSameRecord ==
    (ppc = "done" /\ run = 2 /\ same) => record = record1

C9_Witness ==
    /\ ppc = "done" /\ run = 2 /\ same
    /\ geostatus = "returned"
    /\ Len(script) >= 4
    /\ pos = Len(script)
    /\ record = record1
    /\ record[1].transport_score = 36000

\* C8: for any arguments and any five weights summing to 1.0, the edge
\* score and each of the five sub-scores are in [0, 100].
InRange(f) == 0 <= f[1] /\ f[1] <= 100000 * f[2]

C8_EdgeScoreInRange ==
    fout # None =>
        /\ 0 <= fout[1].edge_score /\ fout[1].edge_score <= 100000
        /\ \A k \in DOMAIN fout[1].subs : InRange(fout[1].subs[k])

C8_Witness ==
    /\ fout # None
    /\ fin.w.weight_liquidity < 0
    /\ fin.liquidity_score > 100000
    /\ fin.gross_yield = Some(50000)
    /\ fout[1].subs.liquidity = <<100000, 1>>
    /\ fout[1].edge_score = 100000

(***************************************************************************)
(* The readers of the DVF cache next to the refresher: get_cached_price,   *)
(* get_market_data and run_enrichment_pipeline are called while a refresh  *)
(* is in progress, before it and after it.                                 *)
(***************************************************************************)

\* Faulty variant: the read removes the entry it returns (dict.pop).
cache_get_Pop(d, city) ==
    [value |-> IF city # None /\ city[1] \in DOMAIN d THEN d[city[1]] ELSE None,
     dict |-> [c \in DOMAIN d |-> IF city # None /\ c = city[1] THEN None ELSE d[c]]]

\* _cache.get(city): the value returned and the dict after the read.
\* dict.get inserts nothing and removes nothing.
cache_get(d, city) ==
    [value |-> IF city # None /\ city[1] \in DOMAIN d THEN d[city[1]] ELSE None,
     dict |-> d]

LookupCities == {None, Some("Paris"), Some("Atlantis")}

\* A caller invokes get_cached_price(city).
get_cached_price_call(city) ==
    /\ fin' = [fn |-> "get_cached_price", city |-> city]
    /\ fout' = Some(cache_get(cache, city).value)
    /\ cache' = cache_get(cache, city).dict
    /\ UNCHANGED <<jobVars, pipeVars, config, callpc, task, dl, finished, overlapped>>

\* A caller invokes get_market_data(city): the function reads
\* CITY_MARKET_DATA only.
get_market_data_call(city) ==
    /\ fin' = [fn |-> "get_market_data", city |-> city]
    /\ fout' = Some(get_market_data(city))
    /\ UNCHANGED <<jobVars, pipeVars, refreshVars>>

\* The listing and the POI answers of the pipeline call that runs next to
\* the refresh.
MixedArgs == {Args(50000, Some(15), Some("Paris"), Some(48), Some(2), {}, 4, None)}

MixedResponses == {Fail, Payload("int", 3)}

MixedNext ==
    \/ OverlapNext
    \/ \E args \in MixedArgs : run_enrichment_pipeline(args)
    \/ \E resp \in MixedResponses : overpass_response(resp)
    \/ \E city \in LookupCities : get_cached_price_call(city)
    \/ \E city \in LookupCities : get_market_data_call(city)

\* One refresh, on the cache an earlier refresh left, with the readers.
InitMixed == InitPipeline

SpecMixed == InitMixed /\ [][MixedNext]_vars

\* C11: the DVF cache is modified only by refresh_all_cities: a step of
\* run_enrichment_pipeline, get_market_data or get_cached_price leaves every
\* city's entry as it was, and an entry changes only in the write loop of a
\* refresh_all_cities call.
C11_OnlyRefreshWritesCache ==
    [][/\ (pipeVars' # pipeVars \/ pureVars' # pureVars) => cache' = cache
       /\ cache' # cache => \E k \in Calls : Finishing(k)]_vars

C11_Witness ==
    /\ callpc[1] = "done"
    /\ cache["Paris"] # None /\ cache["Paris"] # PriorPrice
    /\ ppc = "done"
    /\ market.city_avg_sell_per_sqm = 280000
    /\ fin # <<>> /\ fin.fn = "get_cached_price" /\ fin.city = Some("Paris")
    /\ fout = Some(cache["Paris"])

(***************************************************************************)
(* _parse_garage_prices and _fetch_city as pure functions: the rows of a   *)
(* city's two commune files are drawn in the initial state and one step    *)
(* parses each file and pools the prices.                                  *)
(***************************************************************************)

\* The largest number of rows of the two files together.
MaxRows == 4

\* Rows of mutations 1 and 2.  Mutation 1 is a sale of 48 000 written with
\* either decimal separator; it also has a flat, a row whose price is no
\* number and a row that carries another price.
RowPool ==
    {Row(1, "Vente", "Dependance", Num(48000, 0, ".")),
     Row(1, "Vente", "Dependance", Num(48000, 0, ",")),
     Row(1, "Vente", "Appartement", Num(48000, 0, ".")),
     Row(1, "Vente", "Dependance", Junk),
     Row(1, "Vente", "Dependance", Num(30000, 0, ".")),
     Row(2, "Vente", "Dependance", Num(20000, 0, "."))}

RowSeqs(n) == UNION {[1 .. m -> RowPool] : m \in 0 .. n}

FilePairs ==
    {p \in RowSeqs(MaxRows) \X RowSeqs(MaxRows) : Len(p[1]) + Len(p[2]) <= MaxRows}

\* The rows left after the mask and the price coercion: garage sales with a
\* positive numeric price.
garage_df(rows) ==
    SelectSeq(SelectSeq(rows, LAMBDA r : r.nature_mutation = "Vente"
                                         /\ r.type_local = "Dependance"),
              LAMBDA r : ~ToNumeric(r.valeur_fonciere).nan
                         /\ ToNumeric(r.valeur_fonciere).cents > 0)

\* The keys of groupby("id_mutation"), in the order of the groups.
MutationIds(rows) == Ascending({rows[i].id_mutation : i \in DOMAIN rows})

\* What _parse_garage_prices computes for one file.
ParseTrace(rows) ==
    [ids |-> MutationIds(garage_df(rows)),
     per_lot |-> PerMutation(garage_df(rows)),
     prices |-> parse_garage_prices(Csv(rows)).prices]

\* _fetch_city on the two files.
fetch_city_call ==
    /\ fout = None
    /\ LET results == [f \in DOMAIN fin |-> parse_garage_prices(Csv(fin[f])).prices]
       IN  fout' = Some([per_file |-> [f \in DOMAIN fin |-> ParseTrace(fin[f])],
                         all_prices |-> Concat(results),
                         price |-> fetch_city(results)])
    /\ UNCHANGED <<jobVars, refreshVars, pipeVars, fin>>

InitParse ==
    /\ RefreshInit(ConfigSmall, {1}, EmptyCache(ConfigSmall))
    /\ PipeIdle /\ JobIdle
    /\ fin \in FilePairs
    /\ fout = None

SpecParse == InitParse /\ [][fetch_city_call]_vars

\* The rows of a file that are sales of the target property type, and those
\* of one mutation.
IsGarageSale(r) == r.nature_mutation = "Vente" /\ r.type_local = "Dependance"

RowsOf(rows, m) == {i \in DOMAIN rows : IsGarageSale(rows[i]) /\ rows[i].id_mutation = m}

\* All qualifying rows of mutation m carry the total price p (in cents).
SharePrice(rows, m, p) ==
    /\ RowsOf(rows, m) # {}
    /\ \A i \in RowsOf(rows, m) :
          /\ rows[i].valeur_fonciere.kind = "num"
          /\ rows[i].valeur_fonciere.euros * 100 + rows[i].valeur_fonciere.cents = p

\* C12: for the n qualifying rows of a file that share one mutation id and
\* all carry the same total price P, exactly one per-unit price is derived
\* for the mutation and it is P/n, in whatever order the rows come.
C12_OnePerUnitPricePerMutation ==
    fout # None =>
        \A f \in DOMAIN fin : \A m \in {1, 2} : \A p \in {2000000, 3000000, 4800000} :
            SharePrice(fin[f], m, p) =>
                LET tr == fout[1].per_file[f]
                    js == {j \in DOMAIN tr.ids : tr.ids[j] = m}
                    n == Cardinality(RowsOf(fin[f], m))
                IN  /\ Cardinality(js) = 1
                    /\ Len(tr.per_lot) = Len(tr.ids)
                    /\ \A j \in js : tr.per_lot[j][1] * n = p * tr.per_lot[j][2]
                    /\ Len(SelectSeq(tr.prices, LAMBDA x : x[1] * n = p * x[2])) >= 1

C12_Witness ==
    /\ fout # None
    /\ fin[2] = <<>>
    /\ Len(fin[1]) = 4
    /\ fin[1][1] = Row(1, "Vente", "Dependance", Num(48000, 0, ","))
    /\ fin[1][2] = Row(2, "Vente", "Dependance", Num(20000, 0, "."))
    /\ fin[1][3] = Row(1, "Vente", "Appartement", Num(48000, 0, "."))
    /\ fin[1][4] = Row(1, "Vente", "Dependance", Num(48000, 0, "."))
    /\ fout[1].per_file[1].per_lot = <<<<4800000, 2>>, <<2000000, 1>>>>
    /\ fout[1].all_prices = <<<<4800000, 2>>, <<2000000, 1>>>>

(***************************************************************************)
(* compute_metrics as a pure function.                                     *)
(***************************************************************************)

\* price 50 000, surface 15, rent 13 per m2, sale price 1 400 per m2, tags
\* digicode and gardiennage, 4 photos.
MetricsScenario ==
    [price |-> 50000, surface |-> Some(15), avg_rent_per_sqm |-> 130,
     city_avg_sell_per_sqm |-> 140000,
     accessibility_tags |-> {"digicode", "gardiennage"}, photos_count |-> 4]

MetricsInputs ==
    [price : {0 - 1000, 0, 50000},
     surface : {None, Some(0), Some(0 - 5), Some(10), Some(15)},
     avg_rent_per_sqm : {130},
     city_avg_sell_per_sqm : {140000},
     accessibility_tags : {{}, {"digicode", "gardiennage"},
                           {"Digicode", "hauteur 2m", "videosurveillance", "interphone",
                            "gardiennage", "electricite", "eau", "24h/24", "telecommande"}},
     photos_count : {0, 2, 4, 30}]

compute_metrics_call ==
    /\ fout = None
    /\ fout' = Some(compute_metrics(fin.price, fin.surface, fin.avg_rent_per_sqm,
                                    fin.city_avg_sell_per_sqm, fin.accessibility_tags,
                                    fin.photos_count))
    /\ UNCHANGED <<jobVars, refreshVars, pipeVars, fin>>

InitMetrics ==
    /\ RefreshInit(ConfigSmall, {1}, EmptyCache(ConfigSmall))
    /\ PipeIdle /\ JobIdle
    /\ fin \in MetricsInputs
    /\ fout = None

SpecMetrics == InitMetrics /\ [][compute_metrics_call]_vars

\* C13: with surface absent, zero or negative, compute_metrics returns
\* price_per_sqm, both rent estimates, gross_yield and
\* storage_yield_estimate absent, and accessibility_score,
\* vertical_storage_potential and liquidity_score as numbers in [0, 100],
\* for any non-negative photos_count.
C13_NoSurfaceNoRatios ==
    (fout # None /\ (fin.surface = None \/ fin.surface[1] <= 0)) =>
        /\ fout[1].price_per_sqm = None
        /\ fout[1].estimated_rent_low = None
        /\ fout[1].estimated_rent_high = None
        /\ fout[1].gross_yield = None
        /\ fout[1].storage_yield_estimate = None
        /\ \A k \in {"accessibility_score", "vertical_storage_potential", "liquidity_score"} :
              fout[1][k] \in 0 .. 100000

C13_Witness ==
    /\ fout # None
    /\ fin.surface = Some(0 - 5)
    /\ fin.photos_count = 30
    /\ Cardinality(fin.accessibility_tags) = 9
    /\ fout[1].price_per_sqm = None
    /\ fout[1].liquidity_score = 100000
    /\ fout[1].accessibility_score = 100000
    /\ fout[1].vertical_storage_potential = 45000

\* C14 as stated: in the scenario price 50 000, surface 15, rent 13, sale
\* price 1 400, tags digicode and gardiennage, 4 photos, liquidity_score is
\* 48.
C14_Original ==
    (fout # None /\ fin = MetricsScenario) => fout[1].liquidity_score = 48000

\* C14 as amended: in that scenario liquidity_score is 56: 4 photos x 5,
\* plus 8 for each of the two security tags (digicode and gardiennage), plus
\* the surface >= 15 bonus of 20.
C14_ScenarioLiquidity ==
    (fout # None /\ fin = MetricsScenario) =>
        /\ fout[1].liquidity_score = 56000
        /\ fout[1].liquidity_score = 4 * 5000 + 2 * 8000 + 20000

C14_Witness ==
    /\ fout # None
    /\ fin = MetricsScenario
    /\ fout[1].liquidity_score = 56000

(***************************************************************************)
(* Claims about the record run_enrichment_pipeline returns.                *)
(***************************************************************************)

\* C15: in every returned record the storage sub-score that enters
\* edge_score is computed from the vertical_storage_potential of that same
\* record (80, 45 or 20), plus the tag bonuses, clamped: the edge score is
\* the one compute_edge_score gives for the record's potential.
C15_StorageFromRecordPotential ==
    (ppc = "done" /\ record # None) =>
        record[1].edge_score =
            compute_edge_score(settings, pargs.price, pargs.surface,
                               market.city_avg_sell_per_sqm, record[1].gross_yield,
                               record[1].transport_score, record[1].commercial_density,
                               pargs.accessibility_tags, record[1].liquidity_score,
                               record[1].ml_price_deviation,
                               record[1].vertical_storage_potential)

\* C16: the geo fetch is issued exactly when both lat and lon are supplied,
\* a coordinate equal to 0.0 included; when either is absent no POI request
\* is made and the record has transport_score 30 and commercial_density 5.
C16_GeoFetchIffBothCoordinates ==
    InCall =>
        /\ geostatus # "skipped" <=> (pargs.lat # None /\ pargs.lon # None)
        /\ geostatus = "skipped" =>
              /\ pos = 0
              /\ record # None
              /\ record[1].transport_score = 30000
              /\ record[1].commercial_density = 5000

(***************************************************************************)
(* _transport_score as a pure function of the transit count.               *)
(***************************************************************************)

\* The largest transit count drawn.
MaxStationCount == 60

\* _transport_score is applied to the count and to the next count.
transport_score_call ==
    /\ fout = None
    /\ fout' = Some([score |-> transport_score(fin), next |-> transport_score(fin + 1)])
    /\ UNCHANGED <<jobVars, refreshVars, pipeVars, fin>>

InitTransport ==
    /\ RefreshInit(ConfigSmall, {1}, EmptyCache(ConfigSmall))
    /\ PipeIdle /\ JobIdle
    /\ fin \in 0 .. MaxStationCount
    /\ fout = None

SpecTransport == InitTransport /\ [][transport_score_call]_vars

\* C18: the transport score of a transit count k is 0 for k = 0, 100 for
\* k >= 10 and min(100, 12 k) for 1 <= k <= 9; it is in [0, 100] and
\* non-decreasing in k.
C18_TransportScore ==
    fout # None =>
        /\ fin = 0 => fout[1].score = 0
        /\ fin >= 10 => fout[1].score = 100000
        /\ (1 <= fin /\ fin <= 9) =>
              \/ 12000 * fin <= 100000 /\ fout[1].score = 12000 * fin
              \/ 12000 * fin > 100000 /\ fout[1].score = 100000
        /\ 0 <= fout[1].score /\ fout[1].score <= 100000
        /\ fout[1].score <= fout[1].next

C18_Witness ==
    /\ fout # None
    /\ fin = 9
    /\ fout[1].score = 100000
    /\ fout[1].next = 100000

(***************************************************************************)
(* Claims about the pooling of a city's files.                             *)
(***************************************************************************)

\* Every mutation of the pooled rows has all its qualifying rows carrying
\* one total price.
PooledSharePrices(rows) ==
    \A m \in {1, 2} :
        RowsOf(rows, m) # {} =>
            \E p \in {2000000, 3000000, 4800000} : SharePrice(rows, m, p)

NormAll(s) == [i \in DOMAIN s |-> Norm(s[i])]

\* C19: the grouping by mutation id is done over the pooled qualifying rows
\* of all the city's files: the prices that enter the median are one per
\* mutation, each the total price divided by the number of the mutation's
\* qualifying rows across the files.
C19_GroupingOverPooledRows ==
    (fout # None /\ PooledSharePrices(fin[1] \o fin[2])) =>
        SortFracs(NormAll(fout[1].all_prices)) =
            SortFracs(NormAll(SelectSeq(PerMutation(garage_df(fin[1] \o fin[2])),
                                        ValidPerLot)))

(***************************************************************************)
(* The value refresh_all_cities stores.                                    *)
(***************************************************************************)

\* Refreshes one after another on the cache an earlier refresh left.
SpecRefreshPrior == InitPipeline /\ [][RefreshNext]_vars

\* The prices city c of call k has pooled when its gather is complete.
PooledPrices(k, c) == Concat([f \in Communes(c) |-> dl[k][c][f].prices])

CountLeq(prices, m) == Cardinality({i \in DOMAIN prices : FracLeq(prices[i], m)})
CountGeq(prices, m) == Cardinality({i \in DOMAIN prices : FracLeq(m, prices[i])})

\* v (in cents) is the median of prices divided by 12 and rounded to 2
\* decimals: the median is the midpoint of two of the prices, a <= b, with
\* at least half of the prices <= a and at least half >= b and none
\* strictly between them, and v is within half a cent of it.
IsRoundedMedianPerSqm(v, prices) ==
    \E i, j \in DOMAIN prices :
        LET a == prices[i]
            b == prices[j]
            m == <<a[1] * b[2] + b[1] * a[2], 2 * a[2] * b[2]>>
            d == 2 * 12 * v * m[2] - 2 * m[1]
        IN  /\ FracLeq(a, b)
            /\ 2 * CountLeq(prices, a) >= Len(prices)
            /\ 2 * CountGeq(prices, b) >= Len(prices)
            /\ CountLeq(prices, a) + CountGeq(prices, b) >= Len(prices)
                    + (IF FracLeq(b, a) THEN 1 ELSE 0)
            /\ d <= 12 * m[2] /\ 0 - d <= 12 * m[2]

\* C20: when a city's refresh obtains at least 5 valid per-unit prices, each
\* within 1 500 and 150 000, refresh_all_cities sets the city's cache entry
\* to their median divided by 12, rounded to 2 decimals, in place of any
\* earlier value.
C20_MedianPerSqmIsCached ==
    [][\A k \in Calls : \A c \in Tracked :
          /\ (task[k][c].st = "fetching" /\ task'[k][c].st = "returned"
                /\ Len(PooledPrices(k, c)) >= 5) =>
                /\ \A i \in DOMAIN PooledPrices(k, c) :
                      /\ PooledPrices(k, c)[i][1] >= 150000 * PooledPrices(k, c)[i][2]
                      /\ PooledPrices(k, c)[i][1] <= 15000000 * PooledPrices(k, c)[i][2]
                /\ task'[k][c].nvalid = Len(PooledPrices(k, c))
                /\ task'[k][c].price # None
                /\ IsRoundedMedianPerSqm(task'[k][c].price[1], PooledPrices(k, c))
          /\ (Finishing(k) /\ task[k][c].st = "returned" /\ task[k][c].nvalid >= 5) =>
                /\ task[k][c].price # None
                /\ cache'[c] = task[k][c].price]_vars

C20_Witness ==
    /\ callpc[1] = "done"
    /\ task[1]["Paris"].st = "returned"
    /\ task[1]["Paris"].nvalid = 8
    /\ cache["Paris"] = Some(187500)
    /\ cache["Paris"] # PriorPrice
    /\ task[1]["Bordeaux"].nvalid = 5
    /\ cache["Bordeaux"] = Some(200000)

(***************************************************************************)
(* Claims about enrich_pending_listings.                                   *)
(***************************************************************************)

InitJob == InitRefresh

SpecJob == InitJob /\ [][JobNext]_vars

\* C17: an error raised while enriching one listing aborts only that
\* listing: the batch does not end by it, every listing selected for the
\* batch is processed, and the rows of the listings that succeeded are
\* committed at the end of the batch.
C17_ListingErrorIsIsolated ==
    /\ job.pc # "raised"
    /\ job.pc = "loop" => Len(job.outcome) = job.i - 1
    /\ job.pc = "done" =>
          /\ Len(job.outcome) = Len(listings)
          /\ job.committed = {listings[i].id : i \in {n \in DOMAIN listings :
                                                        job.outcome[n] = "added"}}

C17_Witness ==
    /\ job.pc = "done"
    /\ Len(listings) = 3
    /\ job.outcome[1] = "db_error"
    /\ ~listings[2].has_location
    /\ Len(job.outcome) = 3

\* C24: after enrich_pending_listings has completed a batch in which every
\* service answered (no database query failed), each listing of the batch
\* has exactly one enrichment row: the committed rows are the rows of all
\* the selected listings.
C24_EveryPendingListingGetsOneRow ==
    (/\ job.pc = "done"
     /\ \A n \in DOMAIN job.outcome : job.outcome[n] # "db_error") =>
        job.committed = {listings[i].id : i \in DOMAIN listings}

(***************************************************************************)
(* The order of the stages of run_enrichment_pipeline                      *)
(***************************************************************************)

\* The metrics stage of the running call: compute_metrics of the call's
\* arguments and of the baseline the call looked up.
MetricsOfRun ==
    compute_metrics(pargs.price, pargs.surface, market.avg_rent_area,
                    market.city_avg_sell_per_sqm, pargs.accessibility_tags,
                    pargs.photos_count)

\* C21: the stages of a run happen in the order baseline lookup, geo signal
\* resolution, metrics, edge score.  The baseline of the call's city is
\* known during the whole call; while the geo signals are unresolved no
\* record exists; a record exists only with resolved geo signals, carries
\* the metrics of this run computed from this run's baseline, and its edge
\* score is compute_edge_score of the gross_yield and liquidity_score of
\* those metrics and of the resolved geo signals.
C21_StagesInOrder ==
    /\ InCall => market = get_market_data(pargs.city)
    /\ (InCall /\ geostatus = "pending") => (record = None /\ ppc \in Queries)
    /\ record # None =>
         LET r == record[1]
         IN  /\ geostatus \in {"skipped", "returned", "raised"}
             /\ r.transport_score = geo.transport_score
             /\ r.commercial_density = geo.commercial_density
             /\ r.gross_yield = MetricsOfRun.gross_yield
             /\ r.liquidity_score = MetricsOfRun.liquidity_score
             /\ r.price_per_sqm = MetricsOfRun.price_per_sqm
             /\ r.edge_score =
                  compute_edge_score(settings, pargs.price, pargs.surface,
                                     market.city_avg_sell_per_sqm,
                                     MetricsOfRun.gross_yield,
                                     geo.transport_score, geo.commercial_density,
                                     pargs.accessibility_tags,
                                     MetricsOfRun.liquidity_score,
                                     r.ml_price_deviation, 30000)

\* A call that fetched the geo signals returned a record with a yield.
C21_Witness ==
    /\ ppc = "done"
    /\ geostatus = "returned"
    /\ geo # GeoDefault
    /\ record # None
    /\ record[1].gross_yield # None
    /\ record[1].liquidity_score > 0

(***************************************************************************)
(* _price_deviation_score as a pure function.                              *)
(***************************************************************************)

\* Prices in euros around the fair value 21 000 = 15 m2 x 1 400 per m2;
\* ML deviations in thousandths of a percent.
PriceDevInputs ==
    [price : {0 - 1000, 0, 10500, 21000, 25200, 42000},
     surface : {None, Some(0), Some(0 - 5), Some(15)},
     city_avg_sell_per_sqm : {0 - 100, 0, 140000},
     ml_price_deviation : {None, Some(0 - 50000), Some(0 - 10000), Some(0),
                           Some(10000), Some(23330), Some(90000)}]

price_deviation_score_call ==
    /\ fout = None
    /\ fout' = Some(price_deviation_score(fin.price, fin.surface,
                                          fin.city_avg_sell_per_sqm,
                                          fin.ml_price_deviation))
    /\ UNCHANGED <<jobVars, refreshVars, pipeVars, fin>>

InitPriceDev ==
    /\ RefreshInit(ConfigSmall, {1}, EmptyCache(ConfigSmall))
    /\ PipeIdle /\ JobIdle
    /\ fin \in PriceDevInputs
    /\ fout = None

SpecPriceDev == InitPriceDev /\ [][price_deviation_score_call]_vars

\* The fraction <<n, d>> of thousandths, d > 0, is the value v cut to
\* [0, 100], where v = vn / vd thousandths, vd > 0.
IsClampOf(f, vn, vd) ==
    IF vn < 0 THEN f[1] = 0
    ELSE IF vn > 100000 * vd THEN f[1] = 100000 * f[2]
    ELSE f[1] * vd = vn * f[2]

\* C22: with an ML deviation d the price-deviation sub-score is
\* clamp((d + 10) x 3), whatever price, surface and city baseline are; with
\* none and a surface that is absent or not positive, or a city baseline
\* that is not positive, it is 50; otherwise it is
\* clamp(50 + 1.67 x (fair - price) / fair x 100) with
\* fair = surface x city_avg_sell_per_sqm, which is 50 at price = fair.
\* ratio is (fair - price) / fair in lowest terms.
C22_PriceDeviationScore ==
    fout # None =>
        LET s == fout[1]
            ml == fin.ml_price_deviation
            fair == fin.surface[1] * fin.city_avg_sell_per_sqm
            ratio == Norm(<<fair - fin.price * 100, fair>>)
        IN  /\ s[2] > 0
            /\ IF ml # None
               THEN IsClampOf(s, (ml[1] + 10000) * 3, 1)
               ELSE IF fin.surface = None \/ fin.surface[1] <= 0
                       \/ fin.city_avg_sell_per_sqm <= 0
               THEN s[1] = 50000 * s[2]
               ELSE /\ IsClampOf(s, 50000 * ratio[2] + 167000 * ratio[1], ratio[2])
                    /\ fin.price * 100 = fair => s[1] = 50000 * s[2]

\* A listing priced at fair value without ML deviation scores 50, and one
\* with a usable baseline and an ML deviation of 23.33 scores 99.99.
C22_Witness ==
    /\ fout # None
    /\ fin.surface = Some(15)
    /\ fin.city_avg_sell_per_sqm = 140000
    /\ \/ /\ fin.ml_price_deviation = None
          /\ fin.price = 21000
          /\ fout[1] = <<50000, 1>>
       \/ /\ fin.ml_price_deviation = Some(23330)
          /\ fin.price = 42000
          /\ fout[1] = <<99990, 1>>

(***************************************************************************)
(* Steps 3 to 5 of run_enrichment_pipeline as a pure function: the metrics *)
(* of a listing and the sub-scores the edge score is built from, with the  *)
(* default geo signals and no ML estimate.                                 *)
(***************************************************************************)

score_listing_call ==
    /\ fout = None
    /\ LET metrics == compute_metrics(fin.price, fin.surface, fin.avg_rent_per_sqm,
                                      fin.city_avg_sell_per_sqm,
                                      fin.accessibility_tags, fin.photos_count)
           dev == ml_price_deviation(fin.price, None)
       IN  fout' = Some([metrics |-> metrics,
                         subs |-> sub_scores(fin.price, fin.surface,
                                             fin.city_avg_sell_per_sqm,
                                             metrics.gross_yield,
                                             GeoDefault.transport_score,
                                             GeoDefault.commercial_density,
                                             fin.accessibility_tags,
                                             metrics.liquidity_score, dev, 30000)])
    /\ UNCHANGED <<jobVars, refreshVars, pipeVars, fin>>

SpecScoring == InitMetrics /\ [][score_listing_call]_vars

\* C23: compute_metrics returns a gross_yield exactly when the surface is
\* present and positive and price > 0, and a storage_yield_estimate exactly
\* when it returns a gross_yield; with a present, positive surface and
\* price <= 0 both rent estimates and price_per_sqm are returned, both
\* yields are absent, and the yield sub-score of the edge score is 40.
C23_YieldDefinedIffSurfaceAndPrice ==
    fout # None =>
        LET m == fout[1].metrics
            has_surface == fin.surface # None /\ fin.surface[1] > 0
        IN  /\ (m.gross_yield # None) <=> (has_surface /\ fin.price > 0)
            /\ (m.storage_yield_estimate # None) <=> (m.gross_yield # None)
            /\ (has_surface /\ fin.price <= 0) =>
                  /\ m.estimated_rent_low # None
                  /\ m.estimated_rent_high # None
                  /\ m.price_per_sqm # None
                  /\ m.gross_yield = None
                  /\ m.storage_yield_estimate = None
                  /\ fout[1].subs.yld = <<40000, 1>>

\* A 15 m2 listing at price 0: rents 165.75 to 224.25, price per m2 0, no
\* yield, yield sub-score 40.
C23_Witness ==
    /\ fout # None
    /\ fin.surface = Some(15)
    /\ fin.price = 0
    /\ fout[1].metrics.estimated_rent_low = Some(16575)
    /\ fout[1].metrics.estimated_rent_high = Some(22425)
    /\ fout[1].metrics.price_per_sqm = Some(0)
    /\ fout[1].metrics.gross_yield = None
    /\ fout[1].subs.yld = <<40000, 1>>

(***************************************************************************)
(* Claims about _upsert_listing.                                           *)
(***************************************************************************)

SpecIngest == InitJob /\ [][IngestNext]_vars

\* C25: after any sequence of _upsert_listing calls, also from jobs that
\* overlap on separate sessions, no two committed listing rows have the
\* same source and the same non-empty external_id.
C25_NoDuplicateListings ==
    \A r1, r2 \in listing_rows :
        (/\ r1.committed /\ r2.committed
         /\ r1.source = r2.source
         /\ r1.external_id = r2.external_id
         /\ r1.external_id # "") => r1 = r2

(***************************************************************************)
(* The cache during the downloads of a refresh.                            *)
(***************************************************************************)

\* Every city of call k has finished: it returned (a price or None) or
\* raised.
AllCitiesFinished(k) == \A c \in Tracked : task[k][c].st \in {"returned", "raised"}

\* C26: within one refresh_all_cities call the cache is written only in the
\* step in which every city has finished (returned a price, returned no
\* result, or raised); until then the cache is the one from before the
\* call, and get_cached_price called during the downloads returns the
\* entry from before the call.
C26_NoCacheWriteDuringFetch ==
    [][/\ cache' # cache => \E k \in Calls : Finishing(k) /\ AllCitiesFinished(k)
       /\ (\A k \in Calls : callpc'[k] # "done") => cache' = OverlapCache0
       /\ (/\ \E k \in Calls : callpc[k] = "gathering"
           /\ pureVars' # pureVars
           /\ fin'.fn = "get_cached_price") =>
              fout' = Some(cache_get(OverlapCache0, fin'.city).value)]_vars

\* Paris has returned a new price while Bordeaux is still being fetched, and
\* a reader has been given the price from before the call.
C26_Witness ==
    /\ callpc[1] = "gathering"
    /\ task[1]["Paris"].st = "returned"
    /\ task[1]["Paris"].price # None
    /\ task[1]["Paris"].price # PriorPrice
    /\ task[1]["Bordeaux"].st = "fetching"
    /\ fin # <<>> /\ fin.fn = "get_cached_price" /\ fin.city = Some("Paris")
    /\ fout = Some(PriorPrice)
    /\ cache = OverlapCache0

(***************************************************************************)
(* Termination of refresh_all_cities.  Every download ends: with a body    *)
(* (parsed, or on which the parser raises), with a 404, or with an error   *)
(* or the 45 s timeout of the client.  The event loop runs every task that *)
(* can take a step, which is the weak fairness of the steps.               *)
(***************************************************************************)

\* A file with one garage sale.
BodyOne == Csv(<<Row(1, "Vente", "Dependance", Num(12000, 0, "."))>>)

\* The ends of a download the termination model follows: an error or a
\* timeout (a 404 returns the same empty list), a body the parser raises
\* on, a body with a price.
TerminationResponses ==
    {[kind |-> "failed", body |-> Csv(<<>>)]}
    \cup {[kind |-> "ok", body |-> b] : b \in {BodyDupCols, BodyOne}}

TerminationSteps ==
    \/ \E k \in Calls : \E c \in Tracked : guarded_acquire(k, c)
    \/ \E k \in Calls : \E c \in Tracked : \E f \in Communes(c) :
            \E resp \in TerminationResponses : fetch_commune_done(k, c, f, resp)
    \/ \E k \in Calls : \E c \in Tracked : fetch_city_return(k, c)
    \/ \E k \in Calls : \E c \in Tracked : fetch_city_raise(k, c)
    \/ \E k \in Calls : refresh_all_cities_finish(k)

TerminationNext ==
    \/ \E k \in Calls : callpc[k] = "idle" /\ refresh_all_cities_start(k)
    \/ TerminationSteps

SpecTermination ==
    InitFull /\ [][TerminationNext]_vars /\ WF_vars(TerminationSteps)

\* C27: a refresh_all_cities call whose downloads all end terminates: no
\* city waits for the limiter forever (each acquires it, also when the
\* cities holding it raise), and the call does not stay in its gather
\* forever (it completes).
C27_RefreshTerminates ==
    /\ \A c \in DOMAIN ConfigFull : []<>(task[1][c].st # "waiting")
    /\ []<>(callpc[1] # "gathering")

\* The call is complete after four cities raised inside the limiter and
\* the fifth, which had to wait for a slot, returned.
C27_Witness ==
    /\ callpc[1] = "done"
    /\ Cardinality({c \in Tracked : task[1][c].st = "raised"}) = SemaphoreLimit
    /\ Cardinality({c \in Tracked : task[1][c].st = "returned"}) = 1

\* C28: within one refresh_all_cities call at most 4 cities hold the
\* limiter (are inside their fetch phase) at the same time.
C28_AtMostFourCitiesFetching ==
    \A k \in Calls : Cardinality(Holding(k)) <= 4

\* Four cities are fetching and the fifth waits for a slot.
C28_Witness ==
    /\ Cardinality(Holding(1)) = 4
    /\ \E c \in Tracked : task[1][c].st = "waiting"

(***************************************************************************)
(* The order of the two POI queries of enrich_geo.                         *)
(***************************************************************************)

\* C29: the two POI queries of enrich_geo never overlap.  While the transit
\* query is awaited the commercial query has not been issued; the
\* commercial query is awaited only with the transit query settled, by a
\* success or by the failure of all 3 attempts; and enrich_geo ends only
\* with both queries settled, so the commercial query is issued whether the
\* transit query succeeded or was exhausted.
C29_PoiQueriesInSequence ==
    /\ ppc = "transit" => \A q \in Queries : qres[q] = "pending"
    /\ ppc = "commercial" =>
          /\ qres["transit"] \in {"ok", "exhausted"}
          /\ qres["commercial"] = "pending"
          /\ tries["commercial"] >= 1
    /\ \A q \in Queries : qres[q] = "exhausted" => tries[q] = 3
    /\ geostatus \in {"returned", "raised"} =>
          \A q \in Queries : qres[q] \in {"ok", "exhausted"}

\* The commercial query is in its second attempt after the transit query
\* failed three times.
C29_Witness ==
    /\ ppc = "commercial"
    /\ qres["transit"] = "exhausted"
    /\ tries["transit"] = 3
    /\ tries["commercial"] = 2
    /\ run = 1

(***************************************************************************)
(* The edge score of one listing at two prices: steps 3 to 5 of            *)
(* run_enrichment_pipeline applied to the same listing, baseline and geo   *)
(* signals at a lower and at a higher price.                               *)
(***************************************************************************)

\* The positive prices compared, in euros.
Prices == {100, 10500, 21000, 42000, 150000}

PriceOrderInputs ==
    [lo : Prices, hi : Prices,
     surface : {None, Some(0), Some(15), Some(30)},
     city : {None, Some("Paris"), Some("Lyon")},
     geo : {GeoDefault,
            [transport_score |-> 36000, commercial_density |-> 12000],
            [transport_score |-> 100000, commercial_density |-> 45000]},
     accessibility_tags : {{}, {"Digicode", "gardiennage"}},
     ml_estimated_price : {None, Some(42000), Some(0 - 5)}]

\* The edge score of the record for the drawn listing at the given price.
EdgeScoreAt(x, price) ==
    build_record(DefaultWeights,
                 Args(price, x.surface, x.city, Some(48), Some(2),
                      x.accessibility_tags, 4, x.ml_estimated_price),
                 get_market_data(x.city), x.geo).edge_score

price_order_call ==
    /\ fout = None
    /\ fout' = Some([lo |-> EdgeScoreAt(fin, fin.lo), hi |-> EdgeScoreAt(fin, fin.hi)])
    /\ UNCHANGED <<jobVars, refreshVars, pipeVars, fin>>

InitPriceOrder ==
    /\ RefreshInit(ConfigSmall, {1}, EmptyCache(ConfigSmall))
    /\ PipeIdle /\ JobIdle
    /\ fin \in {x \in PriceOrderInputs : x.lo < x.hi}
    /\ fout = None

SpecPriceOrder == InitPriceOrder /\ [][price_order_call]_vars

\* C30: with the default weights and everything but the price the same,
\* the edge score of the record is non-increasing in the price over
\* positive prices: the cheaper listing's score is not lower.
C30_EdgeScoreNonIncreasingInPrice ==
    fout # None => fout[1].lo >= fout[1].hi

\* A listing with an ML estimate of 42 000 scores higher at 21 000 than at
\* 42 000.
C30_Witness ==
    /\ fout # None
    /\ fin.lo = 21000 /\ fin.hi = 42000
    /\ fin.ml_estimated_price = Some(42000)
    /\ fin.surface = Some(15)
    /\ fout[1].lo > fout[1].hi

====
